---- MODULE Spec2Model ----
(***************************************************************************)
(* A model of the kitchen bots of awap-game-engine-2026-public.            *)
(*                                                                         *)
(* Part 1: the grid and the two breadth-first pathfinders                  *)
(*   - pp_bot.py / balanced_bot.py  get_bfs_path  (variant "pp")           *)
(*   - claude_bot2.py / copy.py     get_bfs_path  (variant "cb")           *)
(* The pathfinder is modelled one loop iteration at a time (bfs_iter), and *)
(* run to completion by bfs_loop where a turn calls it.                     *)
(*                                                                         *)
(* Part 2: one team of two bots driven by BotPlayer.play_turn of           *)
(*   - pp_bot.py        (variant "pp")                                     *)
(*   - balanced_bot.py  (variant "bb")                                     *)
(* A turn runs in three positions: order selection, play_provider_bot,     *)
(* play_assembler_bot; then the simulator ends the turn.  The simulator    *)
(* (robot_controller, game_constants, item) is not part of src/bots and is *)
(* modelled from what the bots call and read.                              *)
(***************************************************************************)
EXTENDS Integers, Sequences, FiniteSets, TLC

VARIABLES
    map_w,        \* map.width
    map_h,        \* map.height
    tiles,        \* map.tiles: cell -> tile_name
    bfs_variant,  \* which get_bfs_path is being run: "pp" or "cb"
    bfs_start,    \* argument start
    bfs_target,   \* arguments (target_x, target_y)
    bfs_blocked,  \* blocked_tiles (pp) / bot_positions - {start} (cb)
    bfs_st,       \* the locals of the running search: queue, visited, ret, done
    player,       \* which BotPlayer plays the turns: "pp" or "bb"
    pc,           \* position inside play_turn: "select", "provider", "assembler", "end"
    sim,          \* the simulator: turn, money, bots, items on tiles, orders
    bot,          \* the fields of the BotPlayer object (self.*)
    log           \* the controller calls issued so far in the current turn

bfs_vars == <<bfs_variant, bfs_start, bfs_target, bfs_blocked, bfs_st>>

turn_vars == <<player, pc, sim, bot, log>>

vars == <<map_w, map_h, tiles, bfs_variant, bfs_start, bfs_target, bfs_blocked, bfs_st,
          player, pc, sim, bot, log>>

\* ---------------------------------------------------------------- bounds
GridW == 4        \* width of the maps with obstacles
GridH == 3        \* height of the maps with obstacles
MaxWalls == 2     \* obstacles drawn on such a map
MaxBlocked == 1   \* cells in blocked_tiles (the other bots of the team)
OpenSize == 10    \* side of the open (obstacle-free) square map

\* ------------------------------------------------------------------ grid
CellsOf(w, h) == (0 .. w - 1) \X (0 .. h - 1)

Cells == CellsOf(map_w, map_h)

None == <<>>

Abs(n) == IF n < 0 THEN -n ELSE n

Max2(a, b) == IF a >= b THEN a ELSE b

\* max(abs(cx - target_x), abs(cy - target_y))
Cheb(a, b) == Max2(Abs(a[1] - b[1]), Abs(a[2] - b[2]))

\* 0 <= nx < w and 0 <= ny < h
InGrid(c) == c[1] >= 0 /\ c[1] < map_w /\ c[2] >= 0 /\ c[2] < map_h

\* map.is_tile_walkable(nx, ny): bots stand on floor tiles only
is_tile_walkable(c) == tiles[c] = "FLOOR"

\* (mutant) only the four orthogonal moves
Dirs_orthogonal == << <<-1, 0>>, <<0, -1>>, <<0, 1>>, <<1, 0>> >>

\* for dx in [-1, 0, 1]: for dy in [-1, 0, 1]: if dx == 0 and dy == 0: continue
Dirs == << <<-1, -1>>, <<-1, 0>>, <<-1, 1>>, <<0, -1>>,
           <<0, 1>>, <<1, -1>>, <<1, 0>>, <<1, 1>> >>

\* ----------------------------------------------------------- pathfinders
\* (mutant) the blocked test dropped
bfs_blocked_never(n, first_step, blocked) == FALSE

\* (mutant) the blocked test applied to the first move only
bfs_blocked_first_only(n, first_step, blocked) == first_step = None /\ n \in blocked

\* (mutant) the blocked test applied at every depth
bfs_blocked_every_depth(n, first_step, blocked) == n \in blocked

\* pp_bot:      if (nx, ny) in blocked_tiles: continue
bfs_blocked_pp(n, first_step, blocked) == n \in blocked

\* claude_bot2: if first_step is None and (nx, ny) in bot_positions_copy: continue
bfs_blocked_cb(n, first_step, blocked) == first_step = None /\ n \in blocked

bfs_skip_blocked(variant, n, first_step, blocked) ==
    IF variant = "pp" THEN bfs_blocked_pp(n, first_step, blocked)
                      ELSE bfs_blocked_cb(n, first_step, blocked)

\* (mutant) a neighbour is queued whether or not it has been visited
bfs_visit_again(variant, st, cur, first_step, blocked, d) ==
    LET n == <<cur[1] + d[1], cur[2] + d[2]>> IN
    IF ~InGrid(n) THEN st
    ELSE IF ~is_tile_walkable(n) THEN st
    ELSE IF bfs_skip_blocked(variant, n, first_step, blocked) THEN st
    ELSE [st EXCEPT !.visited = @ \cup {n},
                    !.queue = Append(@, <<n, IF first_step # None THEN first_step ELSE d>>)]

\* one neighbour of the popped cell: the body of the two for loops
bfs_visit(variant, st, cur, first_step, blocked, d) ==
    LET n == <<cur[1] + d[1], cur[2] + d[2]>> IN
    IF n \in st.visited THEN st
    ELSE IF ~InGrid(n) THEN st
    ELSE IF ~is_tile_walkable(n) THEN st
    ELSE IF bfs_skip_blocked(variant, n, first_step, blocked) THEN st
    ELSE [st EXCEPT !.visited = @ \cup {n},
                    !.queue = Append(@, <<n, IF first_step # None THEN first_step ELSE d>>)]

RECURSIVE bfs_neighbours(_, _, _, _, _, _)
bfs_neighbours(variant, st, cur, first_step, blocked, i) ==
    IF i > Len(Dirs) THEN st
    ELSE bfs_neighbours(variant, bfs_visit(variant, st, cur, first_step, blocked, Dirs[i]),
                        cur, first_step, blocked, i + 1)

\* queue = deque([(start, None)]); visited = {start}
bfs_init(start) ==
    [queue |-> << <<start, None>> >>, visited |-> {start}, ret |-> None, done |-> FALSE]

\* (mutant) queue.pop() instead of queue.popleft(): depth-first
bfs_iter_lifo(variant, st, target, blocked) ==
    IF st.queue = << >> THEN [st EXCEPT !.ret = None, !.done = TRUE]
    ELSE LET last == st.queue[Len(st.queue)]
             cur == last[1]
             first_step == last[2]
             popped == [st EXCEPT !.queue = SubSeq(@, 1, Len(@) - 1)]
         IN IF Cheb(cur, target) <= 1
            THEN [popped EXCEPT !.ret = IF first_step # None THEN first_step ELSE <<0, 0>>,
                                !.done = TRUE]
            ELSE bfs_neighbours(variant, popped, cur, first_step, blocked, 1)

\* one iteration of "while queue:" (or the final "return None")
bfs_iter(variant, st, target, blocked) ==
    IF st.queue = << >> THEN [st EXCEPT !.ret = None, !.done = TRUE]
    ELSE LET cur == Head(st.queue)[1]
             first_step == Head(st.queue)[2]
             popped == [st EXCEPT !.queue = Tail(@)]
         IN IF Cheb(cur, target) <= 1
            THEN [popped EXCEPT !.ret = IF first_step # None THEN first_step ELSE <<0, 0>>,
                                !.done = TRUE]
            ELSE bfs_neighbours(variant, popped, cur, first_step, blocked, 1)

RECURSIVE bfs_loop(_, _, _, _)
bfs_loop(variant, st, target, blocked) ==
    IF st.done THEN st.ret ELSE bfs_loop(variant, bfs_iter(variant, st, target, blocked), target, blocked)

\* get_bfs_path(start, target_x, target_y, blocked_tiles)
get_bfs_path(variant, start, target, blocked) ==
    bfs_loop(variant, bfs_init(start), target, blocked)

\* ======================================================= the simulator
\* game_constants.FoodType: what the bots read of a food type
FoodType ==
    [ EGG     |-> [food_name |-> "EGG",     can_chop |-> FALSE, can_cook |-> TRUE,  buy_cost |-> 4],
      MEAT    |-> [food_name |-> "MEAT",    can_chop |-> TRUE,  can_cook |-> TRUE,  buy_cost |-> 10],
      ONIONS  |-> [food_name |-> "ONIONS",  can_chop |-> TRUE,  can_cook |-> FALSE, buy_cost |-> 5],
      NOODLES |-> [food_name |-> "NOODLES", can_chop |-> FALSE, can_cook |-> FALSE, buy_cost |-> 3],
      SAUCE   |-> [food_name |-> "SAUCE",   can_chop |-> FALSE, can_cook |-> FALSE, buy_cost |-> 1] ]

\* game_constants.ShopCosts
ShopCosts == [ PLATE |-> [buy_cost |-> 2], PAN |-> [buy_cost |-> 4] ]

\* item.Food / item.Plate / item.Pan, and None for "no item"
NoFood == [type |-> "None", food_name |-> "", chopped |-> FALSE, cooked_stage |-> 0]

NoItem == [type |-> "None", food_name |-> "", chopped |-> FALSE, cooked_stage |-> 0,
           pan_food |-> NoFood, plate_food |-> << >>]

Food(name) == [NoItem EXCEPT !.type = "Food", !.food_name = name]

Plate == [NoItem EXCEPT !.type = "Plate"]

Pan == [NoItem EXCEPT !.type = "Pan"]

\* the food inside a pan or on a plate, and back
AsFood(item) == [type |-> item.type, food_name |-> item.food_name,
                 chopped |-> item.chopped, cooked_stage |-> item.cooked_stage]

FromFood(f) == [NoItem EXCEPT !.type = f.type, !.food_name = f.food_name,
                              !.chopped = f.chopped, !.cooked_stage = f.cooked_stage]

\* controller.get_team_bot_ids(team): the provider first, the assembler second
my_bots == <<1, 2>>

BotIds == {my_bots[i] : i \in 1 .. Len(my_bots)}

Plus(c, d) == <<c[1] + d[1], c[2] + d[2]>>

\* an order is active from created_turn to expires_turn inclusive, until completed
is_active(s, o) ==
    /\ o.created_turn <= s.turn
    /\ s.turn <= o.expires_turn
    /\ o.order_id \notin s.completed

\* controller.get_orders(team): the order dicts of the team
get_orders(s) ==
    [i \in 1 .. Len(s.orders) |->
        [order_id |-> s.orders[i].order_id, required |-> s.orders[i].required,
         reward |-> s.orders[i].reward, expires_turn |-> s.orders[i].expires_turn,
         is_active |-> is_active(s, s.orders[i]),
         completed |-> s.orders[i].order_id \in s.completed]]

\* the simulator may refuse what a bot asks for in a turn (the tile changed
\* under it, the other team was in the way): sim.veto names that bot
Refused(s, b) == s.veto = b

\* every controller action returns a bool; the call is logged with the place
\* the bot stands on when it is made
ctl(c, b, kind, loc, ok0, sim2) ==
    LET ok == ok0 /\ ~Refused(c.sim, b)
    IN [c |-> [c EXCEPT !.sim = IF ok THEN sim2 ELSE c.sim,
                        !.log.acts = Append(@, [bot |-> b, kind |-> kind, loc |-> loc,
                                                pos |-> c.sim.bot_pos[b], ok |-> ok])],
        ret |-> ok]

Reach(s, b, loc) == loc \in DOMAIN s.item /\ Cheb(s.bot_pos[b], loc) <= 1

\* controller.move(bot_id, dx, dy); the call is logged, with room for the
\* target the caller is heading for
move(c, b, step) ==
    LET s == c.sim
        dest == Plus(s.bot_pos[b], step)
        ok == /\ ~Refused(s, b)
              /\ InGrid(dest)
              /\ is_tile_walkable(dest)
              /\ \A o \in BotIds \ {b} : s.bot_pos[o] # dest
    IN [c |-> [c EXCEPT !.sim.bot_pos[b] = IF ok THEN dest ELSE @,
                        !.log.moves = Append(@, [bot |-> b, from |-> s.bot_pos[b],
                                                 to |-> dest, ok |-> ok,
                                                 goal |-> None])],
        ret |-> ok]

\* controller.buy(bot_id, item, x, y)
buy(c, b, what, cost, loc) ==
    LET s == c.sim
        ok == /\ Reach(s, b, loc) /\ tiles[loc] = "SHOP"
              /\ s.holding[b] = NoItem /\ s.money >= cost
    IN ctl(c, b, "buy", loc, ok, [s EXCEPT !.money = @ - cost, !.holding[b] = what])

\* controller.place(bot_id, x, y)
place(c, b, loc) ==
    LET s == c.sim
        h == s.holding[b]
        onCounter == tiles[loc] = "COUNTER" /\ s.item[loc] = NoItem
        panDown == tiles[loc] = "COOKER" /\ s.item[loc] = NoItem /\ h.type = "Pan"
        intoPan == /\ tiles[loc] = "COOKER" /\ s.item[loc].type = "Pan"
                   /\ s.item[loc].pan_food = NoFood
                   /\ h.type = "Food" /\ FoodType[h.food_name].can_cook
        ok == Reach(s, b, loc) /\ h # NoItem /\ (onCounter \/ panDown \/ intoPan)
    IN ctl(c, b, "place", loc, ok,
           IF intoPan
           THEN [s EXCEPT !.item[loc].pan_food = AsFood(h), !.holding[b] = NoItem,
                          !.cook_timer = 0]
           ELSE [s EXCEPT !.item[loc] = h, !.holding[b] = NoItem])

\* controller.pickup(bot_id, x, y)
pickup(c, b, loc) ==
    LET s == c.sim
        ok == /\ Reach(s, b, loc) /\ tiles[loc] \in {"COUNTER", "COOKER"}
              /\ s.holding[b] = NoItem /\ s.item[loc] # NoItem
    IN ctl(c, b, "pickup", loc, ok, [s EXCEPT !.holding[b] = s.item[loc], !.item[loc] = NoItem])

\* controller.chop(bot_id, x, y)
chop(c, b, loc) ==
    LET s == c.sim
        ok == /\ Reach(s, b, loc) /\ s.item[loc].type = "Food"
              /\ FoodType[s.item[loc].food_name].can_chop /\ ~s.item[loc].chopped
    IN ctl(c, b, "chop", loc, ok, [s EXCEPT !.item[loc].chopped = TRUE])

\* controller.take_from_pan(bot_id, x, y)
take_from_pan(c, b, loc) ==
    LET s == c.sim
        ok == /\ Reach(s, b, loc) /\ s.item[loc].type = "Pan"
              /\ s.item[loc].pan_food # NoFood /\ s.holding[b] = NoItem
    IN ctl(c, b, "take_from_pan", loc, ok,
           [s EXCEPT !.holding[b] = FromFood(s.item[loc].pan_food),
                     !.item[loc].pan_food = NoFood])

\* controller.add_food_to_plate(bot_id, x, y)
add_food_to_plate(c, b, loc) ==
    LET s == c.sim
        ok == /\ Reach(s, b, loc) /\ s.item[loc].type = "Plate"
              /\ s.holding[b].type = "Food"
    IN ctl(c, b, "add_food_to_plate", loc, ok,
           [s EXCEPT !.item[loc].plate_food = Append(@, AsFood(s.holding[b])),
                     !.holding[b] = NoItem])

\* controller.trash(bot_id, x, y)
trash(c, b, loc) ==
    LET s == c.sim
        ok == Reach(s, b, loc) /\ tiles[loc] = "TRASH" /\ s.holding[b] # NoItem
    IN ctl(c, b, "trash", loc, ok, [s EXCEPT !.holding[b] = NoItem])

\* how often name occurs in a sequence of names
RECURSIVE CountIn(_, _)
CountIn(seq, name) ==
    IF seq = << >> THEN 0
    ELSE (IF Head(seq) = name THEN 1 ELSE 0) + CountIn(Tail(seq), name)

PlateNames(p) == [i \in 1 .. Len(p.plate_food) |-> p.plate_food[i].food_name]

\* a food is ready to serve once chopped and cooked as its type asks
Ready(f) ==
    /\ FoodType[f.food_name].can_chop => f.chopped
    /\ FoodType[f.food_name].can_cook => f.cooked_stage = 1

\* the plate carries exactly the foods the order requires, all ready
Serves(p, o) ==
    /\ Len(p.plate_food) = Len(o.required)
    /\ \A n \in DOMAIN FoodType : CountIn(PlateNames(p), n) = CountIn(o.required, n)
    /\ \A i \in 1 .. Len(p.plate_food) : Ready(p.plate_food[i])

\* controller.submit(bot_id, x, y): the first active order the plate serves
submit(c, b, loc) ==
    LET s == c.sim
        h == s.holding[b]
        hits == {i \in 1 .. Len(s.orders) : is_active(s, s.orders[i]) /\ Serves(h, s.orders[i])}
        ok == Reach(s, b, loc) /\ tiles[loc] = "SUBMIT" /\ h.type = "Plate" /\ hits # {}
        i0 == CHOOSE i \in hits : \A j \in hits : i <= j
    IN ctl(c, b, "submit", loc, ok,
           [s EXCEPT !.holding[b] = NoItem, !.money = @ + s.orders[i0].reward,
                     !.completed = @ \cup {s.orders[i0].order_id}])

\* ============================ BotPlayer: what pp_bot and balanced_bot share
\* None where an order id is expected
NoOrderId == 0

\* None where a FoodType is expected
NoIng == ""

\* BotPlayer.__init__
NewBotPlayer ==
    [ provider_state |-> 0, assembler_state |-> 0,
      provider_state_timer |-> 0, last_provider_state |-> -1,
      assembler_state_timer |-> 0, last_assembler_state |-> -1,
      current_order |-> NoOrderId, current_order_id |-> NoOrderId,
      cooked_queue |-> << >>, chop_queue |-> << >>,
      simple_queue |-> << >>, chopped_queue |-> << >>,
      cooked_ingredients |-> << >>, simple_ingredients |-> << >>,
      chopped_ingredients |-> << >>,
      cooked_count |-> 0, cooked_total |-> 0,
      cooked_added_to_plate |-> 0, items_on_plate |-> 0,
      current_chop_ingredient |-> NoIng, current_cooking_ingredient |-> NoIng,
      pan_on_cooker |-> FALSE,
      active_chop_loc |-> None, active_assemble_loc |-> None, cached_idle_loc |-> None,
      cooker_loc |-> None, shop_loc |-> None, submit_loc |-> None, trash_loc |-> None,
      future_positions |-> [b \in BotIds |-> None],
      current_positions |-> [b \in BotIds |-> None],
      map_inventory |-> << >>,
      pipeline_state |-> 0, pipeline_chop_loc |-> None,
      pipeline_ingredient |-> NoIng, pipeline_queue |-> << >> ]

\* a local variable: { e : x \in {v} } is e with x standing for v, The({...})
\* the value of e
The(S) == CHOOSE x \in S : TRUE

\* for x in range(width): for y in range(height)
CellSeq == [i \in 1 .. map_w * map_h |-> <<(i - 1) \div map_h, (i - 1) % map_h>>]

\* find_important_locations(map)[name]
locations(name) == SelectSeq(CellSeq, LAMBDA c : tiles[c] = name)

\* abs(p[0] - bx) + abs(p[1] - by)
Manhattan(p, q) == Abs(p[1] - q[1]) + Abs(p[2] - q[2])

\* min(seq, key=...) and the "if dist < best_dist" loops: the first of the nearest
NearestIn(seq, p) ==
    IF seq = << >> THEN None
    ELSE seq[CHOOSE i \in 1 .. Len(seq) :
                /\ \A j \in 1 .. Len(seq) : Manhattan(seq[i], p) <= Manhattan(seq[j], p)
                /\ \A j \in 1 .. i - 1 : Manhattan(seq[j], p) > Manhattan(seq[i], p)]

\* the loop of get_distance_bfs, one distance at a time
RECURSIVE dist_layers(_, _, _, _)
dist_layers(frontier, visited, dist, target) ==
    LET new == {n \in Cells : /\ n \notin visited
                              /\ is_tile_walkable(n)
                              /\ \E c \in frontier : Cheb(c, n) = 1}
    IN IF new = {} THEN -1
       ELSE IF \E n \in new : Cheb(n, target) <= 1 THEN dist + 1
       ELSE dist_layers(new, visited \cup new, dist + 1, target)

\* get_distance_bfs(start, target)
get_distance_bfs(start, target) ==
    IF Cheb(start, target) <= 1 THEN 0 ELSE dist_layers({start}, {start}, 0, target)

\* def stay(): self.future_positions[bot_id] = self.current_positions[bot_id]
stay(c, b) == [c EXCEPT !.bot.future_positions[b] = c.bot.current_positions[b]]

\* (mutant) the other bots where they stood when the turn began
move_blocked_stale(c, b) == {c.bot.current_positions[o] : o \in BotIds \ {b}}

\* move_towards: the cells the other bots will stand on (future_positions),
\* or stand on now when they have not been played yet
move_blocked(c, b) ==
    {c.bot.future_positions[o] : o \in {o \in BotIds \ {b} : c.bot.future_positions[o] # None}}
    \cup {c.bot.current_positions[o] : o \in {o \in BotIds \ {b} : c.bot.future_positions[o] = None}}

\* (mutant) one cell further still counts as arrived
move_arrived_two_away(p, target) == Cheb(p, target) <= 1 + 1

\* if max(abs(bx - target_x), abs(by - target_y)) <= 1
move_arrived(p, target) == Cheb(p, target) <= 1

\* (mutant) the step is taken for granted
moved_to_unchecked(p, step, ok) == Plus(p, step)

\* if controller.move(...): future = (bx + step[0], by + step[1]); else future = (bx, by)
moved_to(p, step, ok) == IF ok THEN Plus(p, step) ELSE p

\* (mutant) a search without a step counts as having arrived
not_moved_arrived(c, b, p) == [c |-> [c EXCEPT !.bot.future_positions[b] = p], ret |-> TRUE]

\* no step to take: self.future_positions[bot_id] = (bx, by); return False
not_moved(c, b, p) == [c |-> [c EXCEPT !.bot.future_positions[b] = p], ret |-> FALSE]

\* move_towards(controller, bot_id, target_x, target_y); each search is noted
\* in log.plans with the blocked set it was given and where the bots stood
move_towards(c, b, target) ==
    LET p == c.bot.current_positions[b]
    IN IF move_arrived(p, target)
       THEN [c |-> [c EXCEPT !.bot.future_positions[b] = p], ret |-> TRUE]
       ELSE The({ The({ The({ IF step # None /\ step # <<0, 0>>
                              THEN The({ [c |-> [m.c EXCEPT !.log.moves[Len(m.c.log.moves)].goal = target,
                                                           !.bot.future_positions[b] =
                                                               moved_to(p, step, m.ret)],
                                          ret |-> FALSE]
                                         : m \in {move(cp, b, step)} })
                              ELSE not_moved(cp, b, p)
                              : cp \in {[c EXCEPT !.log.plans =
                                            Append(@, [bot |-> b, from |-> p, target |-> target,
                                                       blocked |-> blocked, step |-> step,
                                                       others |-> {c.sim.bot_pos[o] : o \in BotIds \ {b}}])]} })
                        : step \in {get_bfs_path("pp", p, target, blocked)} })
                  : blocked \in {move_blocked(c, b)} })

\* get_best_counter(controller, bot_id, require_empty)
get_best_counter(c, b, require_empty) ==
    NearestIn(SelectSeq(locations("COUNTER"),
                        LAMBDA k : require_empty => c.sim.item[k] = NoItem),
              c.bot.current_positions[b])

\* find_plate_counter(controller, bot_id)
find_plate_counter(c, b) ==
    NearestIn(SelectSeq(locations("COUNTER"), LAMBDA k : c.sim.item[k].type = "Plate"),
              c.bot.current_positions[b])

\* find_counter_food(controller, bot_id, food_type, require_chopped)
find_counter_food(c, b, food, require_chopped) ==
    NearestIn(SelectSeq(locations("COUNTER"),
                        LAMBDA k : /\ c.sim.item[k].type = "Food"
                                   /\ c.sim.item[k].food_name = food
                                   /\ require_chopped => c.sim.item[k].chopped),
              c.bot.current_positions[b])

\* find_unchopped_food_on_counter(controller, bot_id, food_type)
find_unchopped_food_on_counter(c, b, food) ==
    NearestIn(SelectSeq(locations("COUNTER"),
                        LAMBDA k : /\ c.sim.item[k].type = "Food"
                                   /\ c.sim.item[k].food_name = food
                                   /\ FoodType[food].can_chop
                                   /\ ~c.sim.item[k].chopped),
              c.bot.current_positions[b])

\* get_idle_tile(controller, bot_id): the first walkable cell away from
\* shop, cooker and submit; remembered in cached_idle_loc
idle_candidates(c) ==
    SelectSeq(CellSeq,
              LAMBDA k : /\ is_tile_walkable(k)
                         /\ \A s \in {c.bot.shop_loc, c.bot.cooker_loc, c.bot.submit_loc} \ {None} :
                                Cheb(k, s) > 1)

get_idle_tile(c, b) ==
    IF c.bot.cached_idle_loc # None THEN [c |-> c, ret |-> c.bot.cached_idle_loc]
    ELSE The({ IF idle = << >> THEN [c |-> c, ret |-> None]
               ELSE [c |-> [c EXCEPT !.bot.cached_idle_loc = idle[1]], ret |-> idle[1]]
               : idle \in {idle_candidates(c)} })

\* idle = self.get_idle_tile(...); if idle: self.move_towards(...) else: stay()
go_idle(c, b) ==
    The({ IF i.ret # None THEN move_towards(i.c, b, i.ret).c ELSE stay(i.c, b)
          : i \in {get_idle_tile(c, b)} })

\* get_order_by_id(orders, order_id): the index in orders, 0 for None
get_order_by_id(orders, order_id) ==
    IF order_id = NoOrderId \/ ~\E i \in 1 .. Len(orders) : orders[i].order_id = order_id
    THEN 0
    ELSE CHOOSE i \in 1 .. Len(orders) :
            /\ orders[i].order_id = order_id
            /\ \A j \in 1 .. i - 1 : orders[j].order_id # order_id

\* is_order_expired(order, current_turn)
is_order_expired(orders, i, current_turn) ==
    IF i = 0 THEN FALSE
    ELSE IF orders[i].completed THEN FALSE
    ELSE current_turn > orders[i].expires_turn

\* ===================================================== pp_bot.py: orders
\* self.time_per_tile = 1.2, in tenths of a turn
pp_time_per_tile_x10 == 12

\* self.time_chop = 2
pp_time_chop == 2

\* self.time_cook = 20
pp_time_cook == 20

\* self.time_pickup_place = 2
pp_time_pickup_place == 2

\* scan_map_for_ingredients: the foods lying on counters and boxes, in scan order
scan_map_for_ingredients(s) ==
    LET search_tiles == locations("COUNTER") \o locations("BOX")
        found == SelectSeq(search_tiles, LAMBDA k : s.item[k].type = "Food")
    IN [i \in 1 .. Len(found) |->
          [loc |-> found[i], food_name |-> s.item[found[i]].food_name,
           chopped |-> s.item[found[i]].chopped,
           cooked_stage |-> s.item[found[i]].cooked_stage]]

\* self.map_inventory[food_name], the empty list when the name is no key
inventory_of(c, food_name) ==
    SelectSeq(c.bot.map_inventory, LAMBDA e : e.food_name = food_name)

\* find_ingredient_on_map(controller, bot_id, food_type), require_chopped = False
find_ingredient_on_map(c, b, food) ==
    LET inv == inventory_of(c, food)
    IN NearestIn([i \in 1 .. Len(inv) |-> inv[i].loc], c.bot.current_positions[b])

\* the first of the entries found (for ...: if ...: break), as a sequence of
\* length 0 or 1
FirstOf(hit) == IF hit = << >> THEN << >> ELSE <<hit[1]>>

\* count_available_ingredients: the share one required food adds, in halves
available_halves(c, food_name) ==
    LET ft == FoodType[food_name]
        inv == inventory_of(c, food_name)
        cooked_hit == FirstOf(SelectSeq(inv, LAMBDA e : \/ e.cooked_stage = 1
                                                        \/ (ft.can_chop /\ e.chopped)))
    IN IF ft.can_cook
       THEN (IF cooked_hit = << >> THEN 0
             ELSE IF cooked_hit[1].cooked_stage = 1 THEN 2 ELSE 1)
       ELSE IF inv = << >> THEN 0
       ELSE IF ft.can_chop THEN (IF inv[1].chopped THEN 2 ELSE 1)
       ELSE 2

RECURSIVE available_sum(_, _, _)
available_sum(c, required, i) ==
    IF i > Len(required) THEN 0
    ELSE available_halves(c, required[i]) + available_sum(c, required, i + 1)

\* count_available_ingredients(order): (2 * available, total)
count_available_ingredients(c, order) ==
    [available_x2 |-> available_sum(c, order.required, 1),
     total |-> Len(order.required)]

\* estimate_turns_to_complete: the existing_loc chosen for one food
existing_loc_of(c, food_name) ==
    LET ft == FoodType[food_name]
        inv == inventory_of(c, food_name)
        done == FirstOf(SelectSeq(inv, LAMBDA e : \/ (ft.can_cook /\ e.cooked_stage = 1)
                                                  \/ (ft.can_chop /\ e.chopped /\ ~ft.can_cook)
                                                  \/ (~ft.can_cook /\ ~ft.can_chop)))
    IN IF done # << >> THEN done[1]
       ELSE IF inv # << >> THEN inv[1]
       ELSE [loc |-> None, food_name |-> food_name, chopped |-> FALSE, cooked_stage |-> 0]

\* estimate_turns_to_complete: what buying the food at the shop adds
ingredient_from_shop(c, ft, current_pos) ==
    The({ [t |-> walk.t
                 + (IF ft.can_chop THEN 10 * (pp_time_chop + pp_time_pickup_place * 2) ELSE 0)
                 + (IF ft.can_cook THEN 10 * (pp_time_cook + pp_time_pickup_place) ELSE 0),
           pos |-> walk.pos]
          : walk \in {IF c.bot.shop_loc = None THEN [t |-> 0, pos |-> current_pos]
                      ELSE The({ IF d_shop >= 0
                                 THEN [t |-> d_shop * pp_time_per_tile_x10
                                             + 10 * pp_time_pickup_place,
                                       pos |-> c.bot.shop_loc]
                                 ELSE [t |-> 0, pos |-> current_pos]
                                 : d_shop \in {get_distance_bfs(current_pos,
                                                                c.bot.shop_loc)} })} })

\* estimate_turns_to_complete: one pass of "for food_name in required",
\* times in tenths of a turn
ingredient_turns_x10(c, food_name, current_pos) ==
    LET ft == FoodType[food_name]
    IN The({ IF e.loc # None
             THEN The({ IF d_item >= 0
                        THEN [t |-> d_item * pp_time_per_tile_x10
                                    + (IF ft.can_chop /\ ~e.chopped
                                       THEN 10 * (pp_time_chop + pp_time_pickup_place) ELSE 0)
                                    + (IF ft.can_cook /\ e.cooked_stage # 1
                                       THEN 10 * (pp_time_cook + pp_time_pickup_place) ELSE 0),
                              pos |-> e.loc]
                        ELSE [t |-> 0, pos |-> current_pos]
                        : d_item \in {get_distance_bfs(current_pos, e.loc)} })
             ELSE ingredient_from_shop(c, ft, current_pos)
             : e \in {existing_loc_of(c, food_name)} })

RECURSIVE estimate_loop(_, _, _, _, _)
estimate_loop(c, required, i, current_pos, total) ==
    IF i > Len(required) THEN [t |-> total, pos |-> current_pos]
    ELSE The({ estimate_loop(c, required, i + 1, r.pos, total + r.t)
               : r \in {ingredient_turns_x10(c, required[i], current_pos)} })

\* estimate_turns_to_complete(order, bot_pos), in tenths of a turn
estimate_turns_to_complete(c, order, bot_pos) ==
    The({ IF c.bot.submit_loc = None THEN Max2(r.t, 10)
          ELSE The({ Max2(IF d >= 0
                          THEN r.t + d * pp_time_per_tile_x10 + 10 * (pp_time_pickup_place * 2)
                          ELSE r.t, 10)
                     : d \in {get_distance_bfs(r.pos, c.bot.submit_loc)} })
          : r \in {estimate_loop(c, order.required, 1, bot_pos, 0)} })

\* order_score(order, current_turn): ten times the ROI, as an exact fraction
\* num / den (the common factor keeps the products within 32 bits)
pp_order_score(c, order, current_turn) ==
    LET turns_left == Max2(1, order.expires_turn - current_turn)
    IN The({ [num |-> order.reward
                      * (IF a.total > 0 THEN 20 * a.total + 3 * a.available_x2 ELSE 1)
                      * (IF 20 * turns_left < 3 * est THEN 4 ELSE 5),
              den |-> est * (IF a.total > 0 THEN a.total ELSE 1)]
             : est \in {estimate_turns_to_complete(c, order,
                                                   c.bot.current_positions[my_bots[1]])},
               a \in {count_available_ingredients(c, order)} })

\* x > y for two fractions with positive denominators
FracGt(x, y) == x.num * y.den > y.num * x.den

\* the indexes of the active orders, in list order
active_indexes(orders) == SelectSeq([i \in 1 .. Len(orders) |-> i], LAMBDA i : orders[i].is_active)

\* select_best_order(orders, current_turn): the index of the best order, 0 for None
pp_select_best_order(c, orders, current_turn) ==
    LET active == active_indexes(orders)
    IN IF active = << >> THEN 0
       ELSE The({ active[CHOOSE k \in 1 .. Len(active) :
                           /\ \A j \in 1 .. Len(active) : ~FracGt(score[j], score[k])
                           /\ \A j \in 1 .. k - 1 : FracGt(score[k], score[j])]
                  : score \in {[k \in 1 .. Len(active) |->
                                  pp_order_score(c, orders[active[k]], current_turn)]} })

\* the order dict a bot keeps in self.current_order, by its id
OrderRec(s, order_id) == s.orders[get_order_by_id(s.orders, order_id)]

\* should_continue_order(current_turn): all three branches return turns_left >= 0
pp_should_continue_order(c, current_turn) ==
    IF c.bot.current_order = NoOrderId THEN FALSE
    ELSE OrderRec(c.sim, c.bot.current_order).expires_turn - current_turn >= 0

\* (mutant) an order may be dropped for a better one at any time
can_switch_orders_always(c) == TRUE

\* can_switch_orders()
can_switch_orders(c) ==
    IF c.bot.items_on_plate > 0 THEN FALSE
    ELSE IF c.bot.assembler_state >= 2 THEN FALSE
    ELSE TRUE

\* analyze_order(order) without its first two lines
pp_analyze_order_again(c, order) ==
    LET cooked == SelectSeq(order.required, LAMBDA n : FoodType[n].can_cook)
        chops == SelectSeq(order.required,
                           LAMBDA n : ~FoodType[n].can_cook /\ FoodType[n].can_chop)
        simple == SelectSeq(order.required,
                            LAMBDA n : ~FoodType[n].can_cook /\ ~FoodType[n].can_chop)
    IN [c EXCEPT !.bot.current_order = order.order_id,
                 !.bot.current_order_id = order.order_id,
                 !.bot.active_chop_loc = None,
                 !.bot.active_assemble_loc = None,
                 !.bot.cooked_queue = cooked,
                 !.bot.chop_queue = chops,
                 !.bot.simple_queue = simple,
                 !.bot.chopped_queue = chops,
                 !.bot.current_chop_ingredient = NoIng,
                 !.bot.current_cooking_ingredient = NoIng,
                 !.bot.pipeline_state = 0,
                 !.bot.pipeline_chop_loc = None,
                 !.bot.pipeline_ingredient = NoIng,
                 !.bot.pipeline_queue = chops,
                 !.bot.items_on_plate = 0,
                 !.bot.cooked_count = 0,
                 !.bot.cooked_total = Len(cooked),
                 !.bot.cooked_added_to_plate = 0]

\* analyze_order(order)
pp_analyze_order(c, order) ==
    IF c.bot.current_order_id = order.order_id THEN c
    ELSE LET cooked == SelectSeq(order.required, LAMBDA n : FoodType[n].can_cook)
             chops == SelectSeq(order.required,
                                LAMBDA n : ~FoodType[n].can_cook /\ FoodType[n].can_chop)
             simple == SelectSeq(order.required,
                                 LAMBDA n : ~FoodType[n].can_cook /\ ~FoodType[n].can_chop)
         IN [c EXCEPT !.bot.current_order = order.order_id,
                      !.bot.current_order_id = order.order_id,
                      !.bot.active_chop_loc = None,
                      !.bot.active_assemble_loc = None,
                      !.bot.cooked_queue = cooked,
                      !.bot.chop_queue = chops,
                      !.bot.simple_queue = simple,
                      !.bot.chopped_queue = chops,
                      !.bot.current_chop_ingredient = NoIng,
                      !.bot.current_cooking_ingredient = NoIng,
                      !.bot.pipeline_state = 0,
                      !.bot.pipeline_chop_loc = None,
                      !.bot.pipeline_ingredient = NoIng,
                      !.bot.pipeline_queue = chops,
                      !.bot.items_on_plate = 0,
                      !.bot.cooked_count = 0,
                      !.bot.cooked_total = Len(cooked),
                      !.bot.cooked_added_to_plate = 0]

\* has_work_to_do()
has_work_to_do(c) ==
    \/ c.bot.cooked_queue # << >> \/ c.bot.chop_queue # << >>
    \/ c.bot.simple_queue # << >> \/ c.bot.chopped_queue # << >>
    \/ c.bot.cooked_added_to_plate < c.bot.cooked_total

\* _clear_current_order()
pp_clear_current_order(c) ==
    [c EXCEPT !.bot.current_order = NoOrderId,
              !.bot.current_order_id = NoOrderId,
              !.bot.cooked_queue = << >>,
              !.bot.chop_queue = << >>,
              !.bot.simple_queue = << >>,
              !.bot.chopped_queue = << >>,
              !.bot.cooked_count = 0,
              !.bot.cooked_total = 0,
              !.bot.cooked_added_to_plate = 0,
              !.bot.items_on_plate = 0,
              !.bot.current_chop_ingredient = NoIng,
              !.bot.current_cooking_ingredient = NoIng,
              !.bot.active_chop_loc = None,
              !.bot.active_assemble_loc = None,
              !.bot.pipeline_state = 0,
              !.bot.pipeline_chop_loc = None,
              !.bot.pipeline_ingredient = NoIng,
              !.bot.pipeline_queue = << >>,
              !.bot.provider_state = 100,
              !.bot.assembler_state = 0]

\* play_turn, up to "if self.shop_loc is None: ...": positions and stations
begin_turn(c) ==
    LET p == c.sim.bot_pos[my_bots[1]]
        c1 == [c EXCEPT !.bot.future_positions = [b \in BotIds |-> None],
                        !.bot.current_positions = c.sim.bot_pos]
    IN IF c1.bot.shop_loc # None THEN c1
       ELSE [c1 EXCEPT !.bot.cooker_loc = NearestIn(locations("COOKER"), p),
                       !.bot.shop_loc = NearestIn(locations("SHOP"), p),
                       !.bot.submit_loc = NearestIn(locations("SUBMIT"), p),
                       !.bot.trash_loc = NearestIn(locations("TRASH"), p)]

\* (mutant) any better score is enough to switch
pp_beats_plain(best_score, curr_score) == FracGt(best_score, curr_score)

\* if best_score > curr_score * 1.5
pp_beats(best_score, curr_score) ==
    FracGt([num |-> 2 * best_score.num, den |-> best_score.den],
           [num |-> 3 * curr_score.num, den |-> curr_score.den])

\* (mutant) the two state machines go on from where they are
pp_switch_to_keep_states(c, order) == pp_analyze_order(c, order)

\* self.analyze_order(best_order); provider_state = 0; assembler_state = 0
pp_switch_to(c, order) ==
    [pp_analyze_order(c, order) EXCEPT !.bot.provider_state = 0, !.bot.assembler_state = 0]

\* play_turn of pp_bot, the order decision
pp_decide(c, orders, best, current_turn) ==
    LET cur == get_order_by_id(orders, c.bot.current_order_id)
        current_active == cur # 0 /\ orders[cur].is_active
        current_expired == is_order_expired(orders, cur, current_turn)
        current_order_invalid ==
            c.bot.current_order # NoOrderId /\ (current_expired \/ ~current_active)
        should_switch ==
            IF c.bot.current_order = NoOrderId THEN TRUE
            ELSE IF orders[best].order_id # c.bot.current_order_id
            THEN can_switch_orders(c)
                 /\ pp_beats(pp_order_score(c, orders[best], current_turn),
                             pp_order_score(c, OrderRec(c.sim, c.bot.current_order), current_turn))
            ELSE FALSE
    IN IF current_order_invalid
       THEN (IF best # 0 THEN pp_switch_to(c, orders[best]) ELSE pp_clear_current_order(c))
       ELSE IF best # 0 /\ should_switch THEN pp_switch_to(c, orders[best])
       ELSE c

\* play_turn of pp_bot, from scan_map_for_ingredients to the order decision
pp_order_selection(c0) ==
    The({ The({ pp_decide(c, get_orders(c.sim), best, c.sim.turn)
                : best \in {pp_select_best_order(c, get_orders(c.sim), c.sim.turn)} })
          : c \in {[begin_turn(c0) EXCEPT
                       !.bot.map_inventory = scan_map_for_ingredients(c0.sim)]} })

\* ============================================ pp_bot.py: play_provider_bot
set_ps(c, n) == [c EXCEPT !.bot.provider_state = n]

set_as(c, n) == [c EXCEPT !.bot.assembler_state = n]

\* if self.move_towards(shop): controller.buy(bot_id, item, shop)
go_buy(c, b, what, cost) ==
    LET m == move_towards(c, b, c.bot.shop_loc)
    IN IF m.ret THEN buy(m.c, b, what, cost, c.bot.shop_loc).c ELSE m.c

\* self.move_towards(loc); if max(abs(current - loc)) <= 1: controller.pickup(loc)
go_pickup(c, b, loc) ==
    LET m == move_towards(c, b, loc)
    IN IF Cheb(c.bot.current_positions[b], loc) <= 1 THEN pickup(m.c, b, loc).c ELSE m.c

\* if self.move_towards(loc): controller.<action>(loc), the result not read
go_place(c, b, loc) ==
    LET m == move_towards(c, b, loc) IN IF m.ret THEN place(m.c, b, loc).c ELSE m.c

go_chop(c, b, loc) ==
    LET m == move_towards(c, b, loc) IN IF m.ret THEN chop(m.c, b, loc).c ELSE m.c

go_pickup_there(c, b, loc) ==
    LET m == move_towards(c, b, loc) IN IF m.ret THEN pickup(m.c, b, loc).c ELSE m.c

go_trash(c, b, loc) ==
    LET m == move_towards(c, b, loc) IN IF m.ret THEN trash(m.c, b, loc).c ELSE m.c

\* provider_state == 0
pp_provider_0(c, b) ==
    stay(IF c.bot.cooked_queue # << >>
         THEN LET c1 == [c EXCEPT !.bot.current_cooking_ingredient = Head(c.bot.cooked_queue)]
              IN IF c.bot.cooker_loc # None
                 THEN (IF c.sim.item[c.bot.cooker_loc].type = "Pan"
                       THEN [c1 EXCEPT !.bot.pan_on_cooker = TRUE, !.bot.provider_state = 3]
                       ELSE set_ps(c1, 1))
                 ELSE set_ps(c1, 100)
         ELSE IF c.bot.chop_queue # << >>
         THEN [c EXCEPT !.bot.current_chop_ingredient = Head(c.bot.chop_queue),
                        !.bot.provider_state = 30]
         ELSE set_ps(c, 100), b)

\* provider_state == 1: Buy Pan
pp_provider_1(c, b, holding, money) ==
    IF holding # NoItem THEN stay(set_ps(c, 2), b)
    ELSE IF c.bot.shop_loc # None /\ money >= ShopCosts.PAN.buy_cost
    THEN go_buy(c, b, Pan, ShopCosts.PAN.buy_cost)
    ELSE stay(c, b)

\* provider_state == 2: Place Pan
pp_provider_2(c, b, holding) ==
    LET m == move_towards(c, b, c.bot.cooker_loc)
        pl == place(m.c, b, c.bot.cooker_loc)
    IN IF holding = NoItem THEN stay(set_ps(c, 1), b)
       ELSE IF c.bot.cooker_loc = None THEN stay(c, b)
       ELSE IF ~m.ret THEN m.c
       ELSE IF pl.ret THEN [pl.c EXCEPT !.bot.pan_on_cooker = TRUE, !.bot.provider_state = 3]
       ELSE stay(pl.c, b)

\* provider_state == 3: Get Ingredient for cooking
pp_provider_3(c0, b, holding, money) ==
    LET c == IF c0.bot.current_cooking_ingredient = NoIng /\ c0.bot.cooked_queue # << >>
             THEN [c0 EXCEPT !.bot.current_cooking_ingredient = Head(c0.bot.cooked_queue)]
             ELSE c0
        ing == c.bot.current_cooking_ingredient
        ft == FoodType[ing]
        chopped_loc == find_counter_food(c, b, ing, TRUE)
        unchopped_loc == find_unchopped_food_on_counter(c, b, ing)
        existing_loc == find_ingredient_on_map(c, b, ing)
    IN IF ing = NoIng THEN stay(set_ps(c, 0), b)
       ELSE IF holding # NoItem
       THEN stay(set_ps(c, IF ft.can_chop
                           THEN (IF holding.type = "Food" /\ holding.chopped THEN 7 ELSE 4)
                           ELSE 7), b)
       ELSE IF ft.can_chop /\ chopped_loc # None THEN go_pickup(c, b, chopped_loc)
       ELSE IF ft.can_chop /\ unchopped_loc # None THEN go_pickup(c, b, unchopped_loc)
       ELSE IF ~ft.can_chop /\ existing_loc # None THEN go_pickup(c, b, existing_loc)
       ELSE IF c.bot.shop_loc # None /\ money >= ft.buy_cost
       THEN go_buy(c, b, Food(ing), ft.buy_cost)
       ELSE stay(c, b)

\* provider_state == 4 / 31 with the counter kept after a failed place
pp_provider_place_for_chop_keep(c0, b, holding, back, next) ==
    LET c == IF c0.bot.active_chop_loc = None
             THEN [c0 EXCEPT !.bot.active_chop_loc = get_best_counter(c0, b, TRUE)]
             ELSE c0
        m == move_towards(c, b, c.bot.active_chop_loc)
        pl == place(m.c, b, c.bot.active_chop_loc)
    IN IF holding = NoItem THEN stay(set_ps(c0, back), b)
       ELSE IF c.bot.active_chop_loc = None THEN stay(c, b)
       ELSE IF ~m.ret THEN m.c
       ELSE IF pl.ret THEN set_ps(pl.c, next)
       ELSE pl.c

\* provider_state == 4 / 31: place the held food on a counter for chopping
pp_provider_place_for_chop(c0, b, holding, back, next) ==
    LET c == IF c0.bot.active_chop_loc = None
             THEN [c0 EXCEPT !.bot.active_chop_loc = get_best_counter(c0, b, TRUE)]
             ELSE c0
        m == move_towards(c, b, c.bot.active_chop_loc)
        pl == place(m.c, b, c.bot.active_chop_loc)
    IN IF holding = NoItem THEN stay(set_ps(c0, back), b)
       ELSE IF c.bot.active_chop_loc = None THEN stay(c, b)
       ELSE IF ~m.ret THEN m.c
       ELSE IF pl.ret THEN set_ps(pl.c, next)
       ELSE [pl.c EXCEPT !.bot.active_chop_loc = None]

\* provider_state == 5 / 32: chop
pp_provider_chop(c, b, back, next) ==
    LET loc == c.bot.active_chop_loc
    IN IF loc = None THEN stay(set_ps(c, back), b)
       ELSE IF c.sim.item[loc].type # "Food"
       THEN stay([c EXCEPT !.bot.active_chop_loc = None, !.bot.provider_state = back], b)
       ELSE IF c.sim.item[loc].chopped THEN stay(set_ps(c, next), b)
       ELSE go_chop(c, b, loc)

\* provider_state == 6: Pickup Chopped
pp_provider_6(c, b, holding) ==
    IF holding # NoItem
    THEN stay([c EXCEPT !.bot.active_chop_loc = None, !.bot.provider_state = 7], b)
    ELSE IF c.bot.active_chop_loc # None THEN go_pickup_there(c, b, c.bot.active_chop_loc)
    ELSE stay(set_ps(c, 3), b)

\* provider_state == 7: Place in Pan
pp_provider_7(c, b, holding) ==
    LET m == move_towards(c, b, c.bot.cooker_loc)
        pl == place(m.c, b, c.bot.cooker_loc)
    IN IF holding = NoItem THEN stay(set_ps(c, 3), b)
       ELSE IF c.bot.cooker_loc = None THEN stay(c, b)
       ELSE IF ~m.ret THEN m.c
       ELSE IF pl.ret
       THEN [pl.c EXCEPT !.bot.provider_state = 8, !.bot.pipeline_state = 0,
                         !.bot.pipeline_chop_loc = None, !.bot.pipeline_ingredient = NoIng]
       ELSE pl.c

\* _do_pipeline_work, pipeline_state == 1
pp_pipeline_1(c, b, holding, money) ==
    LET ing == c.bot.pipeline_ingredient
        existing_unchopped == find_unchopped_food_on_counter(c, b, ing)
    IN IF holding # NoItem THEN stay([c EXCEPT !.bot.pipeline_state = 2], b)
       ELSE IF ing = NoIng THEN stay(c, b)
       ELSE IF existing_unchopped # None THEN go_pickup(c, b, existing_unchopped)
       ELSE IF c.bot.shop_loc # None /\ money >= FoodType[ing].buy_cost
       THEN go_buy(c, b, Food(ing), FoodType[ing].buy_cost)
       ELSE stay(c, b)

\* _do_pipeline_work, pipeline_state == 2
pp_pipeline_2(c0, b, holding) ==
    LET c == IF c0.bot.pipeline_chop_loc = None
             THEN [c0 EXCEPT !.bot.pipeline_chop_loc = get_best_counter(c0, b, TRUE)]
             ELSE c0
        m == move_towards(c, b, c.bot.pipeline_chop_loc)
        pl == place(m.c, b, c.bot.pipeline_chop_loc)
    IN IF holding = NoItem THEN stay([c0 EXCEPT !.bot.pipeline_state = 1], b)
       ELSE IF c.bot.pipeline_chop_loc = None THEN stay(c, b)
       ELSE IF ~m.ret THEN m.c
       ELSE IF pl.ret THEN [pl.c EXCEPT !.bot.pipeline_state = 3]
       ELSE [pl.c EXCEPT !.bot.pipeline_chop_loc = None]

\* _do_pipeline_work, pipeline_state == 3
pp_pipeline_3(c, b) ==
    LET loc == c.bot.pipeline_chop_loc
        popped == IF c.bot.pipeline_queue # << >> THEN Tail(c.bot.pipeline_queue) ELSE << >>
        same == /\ c.bot.chop_queue # << >>
                /\ c.bot.pipeline_ingredient # NoIng
                /\ Head(c.bot.chop_queue) = c.bot.pipeline_ingredient
    IN IF loc = None THEN stay([c EXCEPT !.bot.pipeline_state = 1], b)
       ELSE IF c.sim.item[loc].type # "Food"
       THEN stay([c EXCEPT !.bot.pipeline_chop_loc = None, !.bot.pipeline_state = 1], b)
       ELSE IF c.sim.item[loc].chopped
       THEN stay([c EXCEPT !.bot.pipeline_queue = popped,
                           !.bot.chop_queue = IF same THEN Tail(@) ELSE @,
                           !.bot.pipeline_state = 0,
                           !.bot.pipeline_chop_loc = None,
                           !.bot.pipeline_ingredient = NoIng], b)
       ELSE go_chop(c, b, loc)

\* _do_pipeline_work(controller, bot_id, team, money, stay_fn)
pp_do_pipeline_work(c0, b, money) ==
    LET holding == c0.sim.holding[b]
        c == IF c0.bot.pipeline_state = 0 /\ c0.bot.pipeline_queue # << >>
             THEN [c0 EXCEPT !.bot.pipeline_ingredient = Head(c0.bot.pipeline_queue),
                             !.bot.pipeline_state = 1]
             ELSE c0
    IN IF c0.bot.pipeline_state = 0 /\ c0.bot.pipeline_queue = << >> THEN go_idle(c0, b)
       ELSE IF c.bot.pipeline_state = 1 THEN pp_pipeline_1(c, b, holding, money)
       ELSE IF c.bot.pipeline_state = 2 THEN pp_pipeline_2(c, b, holding)
       ELSE IF c.bot.pipeline_state = 3 THEN pp_pipeline_3(c, b)
       ELSE c

\* provider_state 8 and 9, while the food is still in the pan: chop ahead or step aside
pp_provider_wait(c, b, holding, money) ==
    IF c.bot.pipeline_queue # << >> /\ holding = NoItem
    THEN pp_do_pipeline_work(c, b, money)
    ELSE go_idle(c, b)

\* provider_state == 8 counting the cooked food and leaving it in cooked_queue
pp_provider_8_count_only(c, b, holding, money) ==
    LET loc == c.bot.cooker_loc
        pan == c.sim.item[loc]
        m == move_towards(c, b, loc)
        tk == take_from_pan(m.c, b, loc)
    IN IF loc = None THEN stay(c, b)
       ELSE IF pan.type = "Pan" /\ pan.pan_food # NoFood
       THEN (IF pan.pan_food.cooked_stage = 1
             THEN stay([c EXCEPT !.bot.cooked_count = @ + 1,
                                 !.bot.provider_state = 9], b)
             ELSE IF pan.pan_food.cooked_stage = 2
             THEN (IF ~m.ret THEN m.c ELSE IF tk.ret THEN set_ps(tk.c, 99) ELSE tk.c)
             ELSE pp_provider_wait(c, b, holding, money))
       ELSE IF pan.type = "Pan" THEN stay(set_ps(c, 3), b)
       ELSE stay(c, b)

\* provider_state == 8: Wait for cooking
pp_provider_8(c, b, holding, money) ==
    LET loc == c.bot.cooker_loc
        pan == c.sim.item[loc]
        m == move_towards(c, b, loc)
        tk == take_from_pan(m.c, b, loc)
    IN IF loc = None THEN stay(c, b)
       ELSE IF pan.type = "Pan" /\ pan.pan_food # NoFood
       THEN (IF pan.pan_food.cooked_stage = 1
             THEN stay([c EXCEPT !.bot.cooked_count = @ + 1,
                                 !.bot.cooked_queue = IF @ # << >> THEN Tail(@) ELSE @,
                                 !.bot.provider_state = 9], b)
             ELSE IF pan.pan_food.cooked_stage = 2
             THEN (IF ~m.ret THEN m.c ELSE IF tk.ret THEN set_ps(tk.c, 99) ELSE tk.c)
             ELSE pp_provider_wait(c, b, holding, money))
       ELSE IF pan.type = "Pan" THEN stay(set_ps(c, 3), b)
       ELSE stay(c, b)

\* provider_state == 9: Transition after cooking
pp_provider_9(c, b, holding, money) ==
    LET loc == c.bot.cooker_loc
        pan == c.sim.item[loc]
    IN IF loc = None THEN stay(c, b)
       ELSE IF pan.type # "Pan" THEN stay(c, b)
       ELSE IF pan.pan_food # NoFood THEN pp_provider_wait(c, b, holding, money)
       ELSE IF c.bot.cooked_queue # << >>
       THEN stay([c EXCEPT !.bot.current_cooking_ingredient = Head(c.bot.cooked_queue),
                           !.bot.provider_state = 3], b)
       ELSE IF c.bot.chop_queue # << >>
       THEN stay([c EXCEPT !.bot.current_chop_ingredient = Head(c.bot.chop_queue),
                           !.bot.provider_state = 30], b)
       ELSE stay(set_ps(c, 100), b)

\* provider_state == 99: Trash burnt food
pp_provider_99(c, b, holding) ==
    LET m == move_towards(c, b, c.bot.trash_loc)
        tr == trash(m.c, b, c.bot.trash_loc)
    IN IF holding = NoItem THEN stay(set_ps(c, 3), b)
       ELSE IF c.bot.trash_loc = None THEN stay(c, b)
       ELSE IF ~m.ret THEN m.c
       ELSE IF tr.ret THEN set_ps(tr.c, 3)
       ELSE tr.c

\* provider_state == 100: Idle
pp_provider_100(c, b, holding) ==
    LET target_counter == get_best_counter(c, b, TRUE)
    IN IF holding = NoItem THEN go_idle(c, b)
       ELSE IF target_counter # None THEN go_place(c, b, target_counter)
       ELSE stay(c, b)

\* provider_state == 30: Get Chop-only ingredient
pp_provider_30(c0, b, holding, money) ==
    LET c == IF c0.bot.current_chop_ingredient = NoIng /\ c0.bot.chop_queue # << >>
             THEN [c0 EXCEPT !.bot.current_chop_ingredient = Head(c0.bot.chop_queue)]
             ELSE c0
        ing == c.bot.current_chop_ingredient
        existing_unchopped == find_unchopped_food_on_counter(c, b, ing)
    IN IF ing = NoIng THEN stay(set_ps(c, 100), b)
       ELSE IF holding # NoItem THEN stay(set_ps(c, 31), b)
       ELSE IF existing_unchopped # None THEN go_pickup(c, b, existing_unchopped)
       ELSE IF c.bot.shop_loc # None /\ money >= FoodType[ing].buy_cost
       THEN go_buy(c, b, Food(ing), FoodType[ing].buy_cost)
       ELSE stay(c, b)

\* provider_state == 33: Done chopping - leave for assembler
pp_provider_33(c, b) ==
    LET rest == IF c.bot.chop_queue # << >> THEN Tail(c.bot.chop_queue) ELSE << >>
        c1 == [c EXCEPT !.bot.chop_queue = rest, !.bot.active_chop_loc = None]
    IN stay(IF rest # << >>
            THEN [c1 EXCEPT !.bot.current_chop_ingredient = Head(rest), !.bot.provider_state = 30]
            ELSE set_ps(c1, 100), b)

\* (mutant) the watchdog waits a turn longer
pp_provider_watchdog_late == 20 + 1

\* if self.provider_state_timer > 20
pp_provider_watchdog == 20

\* if self.assembler_state_timer > 25
pp_assembler_watchdog == 25

\* the watchdog bookkeeping at the head of play_provider_bot
provider_timer(c) ==
    [c EXCEPT !.bot.provider_state_timer =
                  IF c.bot.provider_state = c.bot.last_provider_state THEN @ + 1 ELSE 0,
              !.bot.last_provider_state = c.bot.provider_state]

\* play_provider_bot of pp_bot, up to "def abort_order()": the watchdog and
\* the check of the order's validity
pp_provider_entry(c0, current_turn) ==
    LET c1 == provider_timer(c0)
        c2 == IF c1.bot.provider_state_timer > pp_provider_watchdog
              THEN [c1 EXCEPT !.bot.provider_state = 100, !.bot.provider_state_timer = 0,
                              !.bot.active_chop_loc = None]
              ELSE c1
        order_valid == pp_should_continue_order(c2, current_turn)
    IN IF ~order_valid /\ c2.bot.provider_state \notin {100, 99}
       THEN [c2 EXCEPT !.bot.provider_state = 100, !.bot.active_chop_loc = None]
       ELSE c2

\* "Interruption logic": a chop-only state with nothing left to chop
provider_interrupted(c) ==
    /\ c.bot.provider_state \in {30, 31, 32, 33, 34}
    /\ c.bot.chop_queue = << >>
    /\ c.bot.current_chop_ingredient = NoIng

\* play_provider_bot(controller, bot_id, current_turn) of pp_bot
pp_play_provider_bot(c0, b, current_turn) ==
    LET c == pp_provider_entry(c0, current_turn)
        holding == c0.sim.holding[b]
        money == c0.sim.money
        st == c.bot.provider_state
    IN IF provider_interrupted(c)
       THEN stay(set_ps(c, 100), b)
       ELSE CASE st = 0 -> pp_provider_0(c, b)
              [] st = 1 -> pp_provider_1(c, b, holding, money)
              [] st = 2 -> pp_provider_2(c, b, holding)
              [] st = 3 -> pp_provider_3(c, b, holding, money)
              [] st = 4 -> pp_provider_place_for_chop(c, b, holding, 3, 5)
              [] st = 5 -> pp_provider_chop(c, b, 3, 6)
              [] st = 6 -> pp_provider_6(c, b, holding)
              [] st = 7 -> pp_provider_7(c, b, holding)
              [] st = 8 -> pp_provider_8(c, b, holding, money)
              [] st = 9 -> pp_provider_9(c, b, holding, money)
              [] st = 99 -> pp_provider_99(c, b, holding)
              [] st = 100 -> pp_provider_100(c, b, holding)
              [] st = 30 -> pp_provider_30(c, b, holding, money)
              [] st = 31 -> pp_provider_place_for_chop(c, b, holding, 30, 32)
              [] st = 32 -> pp_provider_chop(c, b, 30, 33)
              [] st = 33 -> pp_provider_33(c, b)
              [] st = 34 -> stay(set_ps(c, 100), b)
              [] OTHER -> stay(c, b)

\* ============================================ pp_bot.py: play_assembler_bot
\* def trash_held_item()
trash_held_item(c, b) ==
    LET target == get_best_counter(c, b, TRUE)
    IN IF c.bot.trash_loc # None THEN go_trash(c, b, c.bot.trash_loc)
       ELSE IF target # None THEN go_place(c, b, target)
       ELSE c

\* items_on_plate = 0; cooked_added_to_plate = 0; assembler_state = 0
pp_start_over(c) ==
    [c EXCEPT !.bot.assembler_state = 0, !.bot.items_on_plate = 0,
              !.bot.cooked_added_to_plate = 0]

\* the state after the plate is on the counter (states 1 and 3)
pp_next_after_plate(c) ==
    IF c.bot.cooked_added_to_plate < c.bot.cooked_total THEN 2
    ELSE IF c.bot.simple_queue # << >> \/ c.bot.chopped_queue # << >> THEN 4
    ELSE 5

\* the state after the plate is back on the counter (state 6)
pp_next_after_replace(c) ==
    IF c.bot.cooked_added_to_plate < c.bot.cooked_total
       /\ c.bot.cooked_count > c.bot.cooked_added_to_plate THEN 2
    ELSE IF c.bot.simple_queue # << >> \/ c.bot.chopped_queue # << >> THEN 4
    ELSE 5
\* (mutant) state 0 buys a plate as soon as the provider is ready, with or
\* without an order to work on
pp_assembler_0_any(c, b, holding, money, order_valid) ==
    LET ready_for_plate == \/ c.bot.provider_state \in {8, 9}
                           \/ c.bot.cooked_count >= c.bot.cooked_total
                           \/ c.bot.cooked_total = 0
    IN IF holding # NoItem
       THEN (IF holding.type = "Plate" THEN set_as(c, 1) ELSE trash_held_item(c, b))
       ELSE IF ready_for_plate
       THEN (IF c.bot.shop_loc # None /\ money >= ShopCosts.PLATE.buy_cost
             THEN go_buy(c, b, Plate, ShopCosts.PLATE.buy_cost)
             ELSE stay(c, b))
       ELSE go_idle(c, b)

\* assembler_state == 0
pp_assembler_0(c, b, holding, money, order_valid) ==
    LET ready_for_plate == \/ c.bot.provider_state \in {8, 9}
                           \/ c.bot.cooked_count >= c.bot.cooked_total
                           \/ c.bot.cooked_total = 0
    IN IF holding # NoItem
       THEN (IF holding.type = "Plate" THEN set_as(c, 1) ELSE trash_held_item(c, b))
       ELSE IF ready_for_plate /\ has_work_to_do(c) /\ order_valid
       THEN (IF c.bot.shop_loc # None /\ money >= ShopCosts.PLATE.buy_cost
             THEN go_buy(c, b, Plate, ShopCosts.PLATE.buy_cost)
             ELSE stay(c, b))
       ELSE go_idle(c, b)

\* assembler_state == 1 / 6: put the held plate on an empty counter
pp_assembler_place_plate(c0, b, next) ==
    LET c == IF c0.bot.active_assemble_loc = None
             THEN [c0 EXCEPT !.bot.active_assemble_loc = get_best_counter(c0, b, TRUE)]
             ELSE c0
        m == move_towards(c, b, c.bot.active_assemble_loc)
        pl == place(m.c, b, c.bot.active_assemble_loc)
    IN IF c.bot.active_assemble_loc = None THEN stay(c, b)
       ELSE IF ~m.ret THEN m.c
       ELSE IF pl.ret THEN set_as(pl.c, next)
       ELSE [pl.c EXCEPT !.bot.active_assemble_loc = None]

\* assembler_state == 1: Place Plate
pp_assembler_1(c, b, holding) ==
    IF holding = NoItem THEN stay(set_as(c, 0), b)
    ELSE IF holding.type # "Plate" THEN set_as(trash_held_item(c, b), 0)
    ELSE pp_assembler_place_plate(c, b, pp_next_after_plate(c))

\* assembler_state == 2: Get Cooked food from pan
pp_assembler_2(c0, b, holding) ==
    LET c == IF c0.bot.active_assemble_loc = None
             THEN [c0 EXCEPT !.bot.active_assemble_loc = find_plate_counter(c0, b)]
             ELSE c0
        loc == c.bot.cooker_loc
        m == move_towards(c, b, loc)
        pan == m.c.sim.item[loc]
    IN IF c0.bot.cooked_added_to_plate >= c0.bot.cooked_total
       THEN stay(set_as(c0, IF c0.bot.simple_queue # << >> \/ c0.bot.chopped_queue # << >>
                            THEN 4 ELSE 5), b)
       ELSE IF holding # NoItem THEN stay(set_as(c, 3), b)
       ELSE IF loc = None THEN stay(c, b)
       ELSE IF ~m.ret THEN m.c
       ELSE IF pan.type = "Pan" /\ pan.pan_food # NoFood /\ pan.pan_food.cooked_stage = 1
       THEN take_from_pan(m.c, b, loc).c
       ELSE m.c

\* assembler_state == 3: Add cooked food to plate
pp_assembler_3(c, b, holding) ==
    LET loc == c.bot.active_assemble_loc
        m == move_towards(c, b, loc)
        ad == add_food_to_plate(m.c, b, loc)
        added == [ad.c EXCEPT !.bot.items_on_plate = @ + 1,
                              !.bot.cooked_added_to_plate = @ + 1]
        found == find_plate_counter(c, b)
    IN IF holding = NoItem THEN stay(set_as(c, 2), b)
       ELSE IF loc # None
       THEN (IF ~m.ret THEN m.c
             ELSE IF ad.ret THEN set_as(added, pp_next_after_plate(added))
             ELSE trash_held_item(ad.c, b))
       ELSE IF found # None THEN [c EXCEPT !.bot.active_assemble_loc = found]
       ELSE pp_start_over(trash_held_item(c, b))

\* assembler_state == 4: Add simple/chopped ingredients
pp_assembler_4(c, b, holding, money) ==
    LET need_chopped == c.bot.simple_queue = << >>
        target_ing == IF c.bot.simple_queue # << >> THEN Head(c.bot.simple_queue)
                      ELSE IF c.bot.chopped_queue # << >> THEN Head(c.bot.chopped_queue)
                      ELSE NoIng
        loc == c.bot.active_assemble_loc
        m == move_towards(c, b, loc)
        ad == add_food_to_plate(m.c, b, loc)
        held_name == IF holding.type = "Food" THEN holding.food_name ELSE NoIng
        plate_loc == find_plate_counter(c, b)
        found_loc == find_counter_food(c, b, target_ing, need_chopped)
    IN IF target_ing = NoIng THEN stay(set_as(c, 5), b)
       ELSE IF holding # NoItem /\ loc # None
       THEN (IF ~m.ret THEN m.c
             ELSE IF ad.ret
             THEN [ad.c EXCEPT !.bot.items_on_plate = @ + 1,
                               !.bot.simple_queue = IF ~need_chopped THEN Tail(@) ELSE @,
                               !.bot.chopped_queue = IF need_chopped THEN Tail(@) ELSE @]
             ELSE IF held_name # target_ing THEN trash_held_item(ad.c, b)
             ELSE set_as(trash_held_item(ad.c, b), 5))
       ELSE IF holding # NoItem
       THEN (IF plate_loc # None THEN [c EXCEPT !.bot.active_assemble_loc = plate_loc]
             ELSE pp_start_over(trash_held_item(c, b)))
       ELSE IF found_loc # None THEN go_pickup(c, b, found_loc)
       ELSE IF ~need_chopped /\ c.bot.shop_loc # None /\ money >= FoodType[target_ing].buy_cost
       THEN go_buy(c, b, Food(target_ing), FoodType[target_ing].buy_cost)
       ELSE stay(c, b)

\* assembler_state == 5: Submit
pp_assembler_5(c0, b, holding) ==
    LET c == IF c0.bot.active_assemble_loc = None
             THEN [c0 EXCEPT !.bot.active_assemble_loc = find_plate_counter(c0, b)]
             ELSE c0
        has_more_cooked == /\ c.bot.cooked_added_to_plate < c.bot.cooked_total
                           /\ c.bot.cooked_count > c.bot.cooked_added_to_plate
        has_more_items == \/ c.bot.simple_queue # << >> \/ c.bot.chopped_queue # << >>
                          \/ has_more_cooked
        ms == move_towards(c, b, c.bot.submit_loc)
        sb == submit(ms.c, b, c.bot.submit_loc)
        loc == c.bot.active_assemble_loc
        mp == move_towards(c, b, loc)
        pk == pickup(mp.c, b, loc)
        again == find_plate_counter(pk.c, b)
    IN IF holding # NoItem /\ holding.type = "Plate"
       THEN (IF c.bot.submit_loc = None THEN stay(c, b)
             ELSE IF ~ms.ret THEN ms.c
             ELSE IF sb.ret
             THEN [pp_start_over(sb.c) EXCEPT !.bot.active_assemble_loc = None]
             ELSE IF has_more_items THEN set_as(sb.c, 6)
             ELSE pp_start_over(trash_held_item(sb.c, b)))
       ELSE IF holding # NoItem THEN trash_held_item(c, b)
       ELSE IF loc = None THEN pp_start_over(c)
       ELSE IF Cheb(c.bot.current_positions[b], loc) > 1 THEN mp.c
       ELSE IF pk.ret THEN pk.c
       ELSE IF again # None THEN [pk.c EXCEPT !.bot.active_assemble_loc = again]
       ELSE pp_start_over([pk.c EXCEPT !.bot.active_assemble_loc = None])

\* assembler_state == 6: Place plate back to add more items
pp_assembler_6(c, b, holding) ==
    LET found == find_plate_counter(c, b)
        c1 == [c EXCEPT !.bot.active_assemble_loc = found]
    IN IF holding # NoItem THEN pp_assembler_place_plate(c, b, pp_next_after_replace(c))
       ELSE IF found # None THEN stay(set_as(c1, pp_next_after_replace(c1)), b)
       ELSE stay(pp_start_over(c1), b)

\* the watchdog bookkeeping at the head of play_assembler_bot
assembler_timer(c) ==
    [c EXCEPT !.bot.assembler_state_timer =
                  IF c.bot.assembler_state = c.bot.last_assembler_state THEN @ + 1 ELSE 0,
              !.bot.last_assembler_state = c.bot.assembler_state]

\* play_assembler_bot, up to the state machine: the watchdog, and the reset
\* of an order that is no longer worth continuing
pp_assembler_entry(c0, current_turn) ==
    LET c1 == assembler_timer(c0)
        c2 == IF c1.bot.assembler_state_timer > pp_assembler_watchdog
              THEN [c1 EXCEPT !.bot.assembler_state = 0, !.bot.assembler_state_timer = 0,
                              !.bot.active_assemble_loc = None, !.bot.items_on_plate = 0,
                              !.bot.cooked_added_to_plate = 0]
              ELSE c1
        order_valid == pp_should_continue_order(c2, current_turn)
    IN [watched |-> c2,
        c |-> IF ~order_valid /\ c2.bot.assembler_state # 0
              THEN [pp_start_over(c2) EXCEPT !.bot.active_assemble_loc = None]
              ELSE c2,
        order_valid |-> order_valid,
        cleanup |-> ~order_valid /\ c2.bot.assembler_state # 0]

\* play_assembler_bot(controller, bot_id, current_turn) of pp_bot
pp_play_assembler_bot(c0, b, current_turn) ==
    LET e == pp_assembler_entry(c0, current_turn)
        c2 == e.watched
        c == e.c
        holding == c0.sim.holding[b]
        money == c0.sim.money
        target == get_best_counter(c2, b, TRUE)
        st == c.bot.assembler_state
    IN IF e.cleanup /\ holding # NoItem
       THEN (IF c2.bot.trash_loc # None THEN go_trash(c2, b, c2.bot.trash_loc)
             ELSE IF target # None THEN go_place(c2, b, target)
             ELSE c2)
       ELSE CASE st = 0 -> pp_assembler_0(c, b, holding, money, e.order_valid)
              [] st = 1 -> pp_assembler_1(c, b, holding)
              [] st = 2 -> pp_assembler_2(c, b, holding)
              [] st = 3 -> pp_assembler_3(c, b, holding)
              [] st = 4 -> pp_assembler_4(c, b, holding, money)
              [] st = 5 -> pp_assembler_5(c, b, holding)
              [] st = 6 -> pp_assembler_6(c, b, holding)
              [] OTHER -> stay(c, b)

\* ================================================ balanced_bot.py: orders
\* self.time_simple = 1
bb_time_simple == 1

\* self.time_chop = 2
bb_time_chop == 2

\* self.time_cook = 4
bb_time_cook == 4

\* if self.provider_state_timer > 15
bb_provider_watchdog == 15

RECURSIVE estimate_order_cost(_)
\* estimate_order_cost(order), as a sum over order['required']
estimate_order_cost(required) ==
    IF required = << >> THEN 0
    ELSE FoodType[Head(required)].buy_cost + estimate_order_cost(Tail(required))

RECURSIVE estimate_order_time(_)
\* estimate_order_time(order), as a sum over order['required']
estimate_order_time(required) ==
    IF required = << >> THEN 0
    ELSE bb_time_simple
         + (IF FoodType[Head(required)].can_chop THEN bb_time_chop ELSE 0)
         + (IF FoodType[Head(required)].can_cook THEN bb_time_cook ELSE 0)
         + estimate_order_time(Tail(required))

\* order_score(order, current_turn) = (score, -time_left);
\* score = reward - 0.5 * cost - 1.0 * time_est is kept doubled
bb_order_score(order, current_turn) ==
    [score_x2 |-> 2 * order.reward - estimate_order_cost(order.required)
                  - 2 * estimate_order_time(order.required),
     neg_time_left |-> 0 - Max2(0, order.expires_turn - current_turn)]

\* tuple comparison x > y
PairGt(x, y) ==
    \/ x.score_x2 > y.score_x2
    \/ (x.score_x2 = y.score_x2 /\ x.neg_time_left > y.neg_time_left)

\* select_best_order(orders, current_turn): the index of the best order, 0 for None
bb_select_best_order(orders, current_turn) ==
    LET active == active_indexes(orders)
        score(i) == bb_order_score(orders[i], current_turn)
    IN IF active = << >> THEN 0
       ELSE active[CHOOSE k \in 1 .. Len(active) :
                     /\ \A j \in 1 .. Len(active) : ~PairGt(score(active[j]), score(active[k]))
                     /\ \A j \in 1 .. k - 1 : PairGt(score(active[k]), score(active[j]))]

\* analyze_order(order)
bb_analyze_order(c, order) ==
    IF c.bot.current_order_id = order.order_id THEN c
    ELSE LET cooked == SelectSeq(order.required, LAMBDA n : FoodType[n].can_cook)
             chops == SelectSeq(order.required,
                                LAMBDA n : ~FoodType[n].can_cook /\ FoodType[n].can_chop)
             simple == SelectSeq(order.required,
                                 LAMBDA n : ~FoodType[n].can_cook /\ ~FoodType[n].can_chop)
         IN [c EXCEPT !.bot.current_order = order.order_id,
                      !.bot.current_order_id = order.order_id,
                      !.bot.active_chop_loc = None,
                      !.bot.active_assemble_loc = None,
                      !.bot.cooked_ingredients = cooked,
                      !.bot.cooked_queue = cooked,
                      !.bot.simple_ingredients = simple,
                      !.bot.chopped_ingredients = chops,
                      !.bot.chop_queue = chops,
                      !.bot.current_chop_ingredient = NoIng,
                      !.bot.cooked_count = 0,
                      !.bot.cooked_total = Len(cooked)]

\* (mutant) the locked order is kept whenever it is still active
bb_beats_never(best_score, curr_score) == FALSE

\* if best_score > curr_score (the first components only)
bb_beats(best_score, curr_score) == best_score.score_x2 > curr_score.score_x2

\* play_turn of balanced_bot, from get_orders to the order decision
bb_order_selection(c0) ==
    LET c == begin_turn(c0)
        current_turn == c.sim.turn
        orders == get_orders(c.sim)
        best == bb_select_best_order(orders, current_turn)
        cur == get_order_by_id(orders, c.bot.current_order_id)
        current_active == cur # 0 /\ orders[cur].is_active
        current_expired == is_order_expired(orders, cur, current_turn)
        should_switch ==
            IF c.bot.current_order = NoOrderId THEN TRUE
            ELSE IF current_expired THEN TRUE
            ELSE IF orders[best].order_id # c.bot.current_order_id
            THEN (IF ~current_active THEN TRUE
                  ELSE bb_beats(bb_order_score(orders[best], current_turn),
                                bb_order_score(OrderRec(c.sim, c.bot.current_order), current_turn)))
            ELSE FALSE
    IN IF best # 0 /\ should_switch
       THEN [bb_analyze_order(c, orders[best]) EXCEPT !.bot.provider_state = 0,
                                                      !.bot.assembler_state = 0]
       ELSE c

\* (mutant) a provider that cannot pay idles and keeps the order
bb_abort_order_keep(c, b) == stay(set_ps(c, 100), b)

\* ====================================== balanced_bot.py: play_provider_bot
\* def abort_order()
bb_abort_order(c, b) ==
    stay([c EXCEPT !.bot.current_order_id = NoOrderId, !.bot.provider_state = 100], b)

\* if self.move_towards(loc): if controller.<action>(loc): <on success>
bb_go(c, b, loc, kind) ==
    The({ IF ~m.ret THEN [c |-> m.c, ret |-> FALSE]
          ELSE CASE kind = "place" -> place(m.c, b, loc)
                 [] kind = "chop" -> chop(m.c, b, loc)
                 [] kind = "pickup" -> pickup(m.c, b, loc)
                 [] kind = "take_from_pan" -> take_from_pan(m.c, b, loc)
                 [] kind = "add_food_to_plate" -> add_food_to_plate(m.c, b, loc)
                 [] kind = "trash" -> trash(m.c, b, loc)
                 [] kind = "submit" -> submit(m.c, b, loc)
          : m \in {move_towards(c, b, loc)} })

\* the chop-only work that follows the cooking, or idling
bb_after_cooking(c) ==
    IF c.bot.chop_queue # << >>
    THEN [c EXCEPT !.bot.current_chop_ingredient = Head(c.bot.chop_queue),
                   !.bot.provider_state = 30]
    ELSE set_ps(c, 100)

\* provider_state == 0
bb_provider_0(c, b) ==
    LET c1 == [c EXCEPT !.bot.current_cooking_ingredient = Head(c.bot.cooked_ingredients)]
    IN stay(IF c.bot.cooked_ingredients = << >> THEN bb_after_cooking(c)
            ELSE IF c.bot.cooker_loc = None THEN set_ps(c1, 100)
            ELSE IF c.sim.item[c.bot.cooker_loc].type = "Pan"
            THEN [c1 EXCEPT !.bot.pan_on_cooker = TRUE, !.bot.provider_state = 3]
            ELSE set_ps(c1, 1), b)

\* provider_state 1, 3, 30: buy, or abort the order when the money is short
bb_provider_buy(c, b, holding, money, next, what, cost, known) ==
    IF holding # NoItem THEN stay(set_ps(c, next), b)
    ELSE IF c.bot.shop_loc # None /\ known
    THEN (IF money >= cost THEN go_buy(c, b, what, cost) ELSE bb_abort_order(c, b))
    ELSE stay(c, b)

\* provider_state 2, 7: place on the cooker
bb_provider_to_cooker(c, b, next) ==
    LET r == bb_go(c, b, c.bot.cooker_loc, "place")
    IN IF c.bot.cooker_loc = None THEN stay(c, b)
       ELSE IF r.ret /\ next = 3
       THEN [r.c EXCEPT !.bot.pan_on_cooker = TRUE, !.bot.provider_state = 3]
       ELSE IF r.ret THEN set_ps(r.c, next)
       ELSE r.c

\* provider_state 4, 31: place on a counter for chopping
bb_provider_place_for_chop(c0, b, next) ==
    LET c == IF c0.bot.active_chop_loc = None
             THEN [c0 EXCEPT !.bot.active_chop_loc = get_best_counter(c0, b, TRUE)]
             ELSE c0
        m == move_towards(c, b, c.bot.active_chop_loc)
        pl == place(m.c, b, c.bot.active_chop_loc)
    IN IF c.bot.active_chop_loc = None THEN stay(c, b)
       ELSE IF ~m.ret THEN m.c
       ELSE IF pl.ret THEN set_ps(pl.c, next)
       ELSE [pl.c EXCEPT !.bot.active_chop_loc = None]

\* provider_state 5: chop; 6: pick the chopped food up
bb_provider_at_chop_loc(c, b, kind, next) ==
    LET r == bb_go(c, b, c.bot.active_chop_loc, kind)
    IN IF c.bot.active_chop_loc = None THEN stay(c, b)
       ELSE IF r.ret /\ kind = "pickup"
       THEN [r.c EXCEPT !.bot.active_chop_loc = None, !.bot.provider_state = next]
       ELSE IF r.ret THEN set_ps(r.c, next)
       ELSE r.c

\* provider_state == 8: Wait for cooking
bb_provider_8(c, b) ==
    LET loc == c.bot.cooker_loc
        pan == c.sim.item[loc]
        r == bb_go(c, b, loc, "take_from_pan")
    IN IF loc = None THEN stay(c, b)
       ELSE IF pan.type = "Pan" /\ pan.pan_food # NoFood
       THEN (IF pan.pan_food.cooked_stage = 1
             THEN stay([c EXCEPT !.bot.cooked_count = @ + 1, !.bot.provider_state = 9], b)
             ELSE IF pan.pan_food.cooked_stage = 2
             THEN (IF r.ret THEN set_ps(r.c, 99) ELSE r.c)
             ELSE go_idle(c, b))
       ELSE stay(c, b)

\* provider_state == 9: Transition
bb_provider_9(c, b) ==
    LET loc == c.bot.cooker_loc
        pan == c.sim.item[loc]
    IN stay(IF loc # None /\ pan.type = "Pan" /\ pan.pan_food = NoFood
            THEN (IF c.bot.cooked_count < c.bot.cooked_total
                  THEN [c EXCEPT !.bot.current_cooking_ingredient =
                                     c.bot.cooked_ingredients[c.bot.cooked_count + 1],
                                 !.bot.provider_state = 3]
                  ELSE bb_after_cooking(c))
            ELSE c, b)

\* provider_state == 99: Trash
bb_provider_99(c, b) ==
    LET r == bb_go(c, b, c.bot.trash_loc, "trash")
    IN IF c.bot.trash_loc = None THEN stay(c, b)
       ELSE IF r.ret THEN set_ps(r.c, 3)
       ELSE r.c

\* provider_state 32: chop; 33: pick the chopped food up
bb_provider_chop_only(c, b, holding, kind) ==
    LET loc == c.bot.active_chop_loc
        item == c.sim.item[loc]
        r == bb_go(c, b, loc, kind)
    IN IF loc = None THEN stay(c, b)
       ELSE IF kind = "chop" /\ (item.type # "Food" \/ ~FoodType[item.food_name].can_chop)
       THEN stay([c EXCEPT !.bot.active_chop_loc = None,
                           !.bot.provider_state = IF holding # NoItem THEN 31 ELSE 30], b)
       ELSE IF kind = "pickup" /\ (item.type # "Food" \/ ~item.chopped)
       THEN stay([c EXCEPT !.bot.active_chop_loc = None, !.bot.provider_state = 32], b)
       ELSE IF r.ret /\ kind = "chop" THEN set_ps(r.c, 33)
       ELSE IF r.ret THEN [r.c EXCEPT !.bot.active_chop_loc = None, !.bot.provider_state = 34]
       ELSE r.c

\* provider_state == 34: Handoff
bb_provider_34(c, b) ==
    LET target_counter == get_best_counter(c, b, TRUE)
        r == bb_go(c, b, target_counter, "place")
        rest == IF r.c.bot.chop_queue # << >> THEN Tail(r.c.bot.chop_queue) ELSE << >>
    IN IF target_counter = None THEN stay(c, b)
       ELSE IF r.ret THEN bb_after_cooking([r.c EXCEPT !.bot.chop_queue = rest])
       ELSE r.c

\* play_provider_bot of balanced_bot, up to "state = ...": the watchdog
bb_provider_entry(c0) ==
    LET c1 == provider_timer(c0)
    IN IF c1.bot.provider_state_timer > bb_provider_watchdog
       THEN [c1 EXCEPT !.bot.provider_state = 100, !.bot.provider_state_timer = 0]
       ELSE c1

\* play_provider_bot(controller, bot_id, current_turn) of balanced_bot
bb_play_provider_bot(c0, b, current_turn) ==
    LET c == bb_provider_entry(c0)
        holding == c0.sim.holding[b]
        money == c0.sim.money
        st == c.bot.provider_state
        cook == c.bot.current_cooking_ingredient
        chp == c.bot.current_chop_ingredient
    IN IF provider_interrupted(c)
       THEN stay(set_ps(c, 100), b)
       ELSE CASE st = 0 -> bb_provider_0(c, b)
              [] st = 1 -> bb_provider_buy(c, b, holding, money, 2, Pan,
                                           ShopCosts.PAN.buy_cost, TRUE)
              [] st = 2 -> bb_provider_to_cooker(c, b, 3)
              [] st = 3 /\ cook = NoIng ->
                     bb_provider_buy(c, b, holding, money, 7, NoItem, 0, FALSE)
              [] st = 3 /\ cook # NoIng ->
                     bb_provider_buy(c, b, holding, money,
                                     IF FoodType[cook].can_chop THEN 4 ELSE 7,
                                     Food(cook), FoodType[cook].buy_cost, TRUE)
              [] st = 4 -> bb_provider_place_for_chop(c, b, 5)
              [] st = 5 -> bb_provider_at_chop_loc(c, b, "chop", 6)
              [] st = 6 -> bb_provider_at_chop_loc(c, b, "pickup", 7)
              [] st = 7 -> bb_provider_to_cooker(c, b, 8)
              [] st = 8 -> bb_provider_8(c, b)
              [] st = 9 -> bb_provider_9(c, b)
              [] st = 99 -> bb_provider_99(c, b)
              [] st = 100 -> go_idle(c, b)
              [] st = 30 /\ chp = NoIng ->
                     bb_provider_buy(c, b, holding, money, 31, NoItem, 0, FALSE)
              [] st = 30 /\ chp # NoIng ->
                     bb_provider_buy(c, b, holding, money, 31,
                                     Food(chp), FoodType[chp].buy_cost, TRUE)
              [] st = 31 -> bb_provider_place_for_chop(c, b, 32)
              [] st = 32 -> bb_provider_chop_only(c, b, holding, "chop")
              [] st = 33 -> bb_provider_chop_only(c, b, holding, "pickup")
              [] st = 34 -> bb_provider_34(c, b)
              [] OTHER -> stay(c, b)

\* ===================================== balanced_bot.py: play_assembler_bot
\* assembler_state == 0: Buy Plate
bb_assembler_0(c, b, holding, money) ==
    IF holding # NoItem THEN stay(set_as(c, 1), b)
    ELSE IF c.bot.provider_state >= 7 \/ c.bot.cooked_queue = << >>
    THEN (IF c.bot.shop_loc # None /\ money >= ShopCosts.PLATE.buy_cost
          THEN go_buy(c, b, Plate, ShopCosts.PLATE.buy_cost)
          ELSE stay(c, b))
    ELSE go_idle(c, b)

\* assembler_state == 1: Place Plate
bb_assembler_1(c0, b, holding) ==
    LET c == IF c0.bot.active_assemble_loc = None
             THEN [c0 EXCEPT !.bot.active_assemble_loc = get_best_counter(c0, b, TRUE)]
             ELSE c0
        m == move_towards(c, b, c.bot.active_assemble_loc)
        pl == place(m.c, b, c.bot.active_assemble_loc)
    IN IF holding.type # "Plate" THEN stay(set_as(c0, 0), b)
       ELSE IF c.bot.active_assemble_loc = None THEN stay(c, b)
       ELSE IF ~m.ret THEN m.c
       ELSE IF pl.ret THEN set_as(pl.c, IF c.bot.cooked_queue # << >> THEN 2 ELSE 4)
       ELSE [pl.c EXCEPT !.bot.active_assemble_loc = None]

\* assembler_state == 2: Get Cooked
bb_assembler_2(c0, b, holding) ==
    LET c == IF c0.bot.active_assemble_loc = None
             THEN [c0 EXCEPT !.bot.active_assemble_loc = find_plate_counter(c0, b)]
             ELSE c0
        loc == c.bot.cooker_loc
        m == move_towards(c, b, loc)
        pan == m.c.sim.item[loc]
        tk == take_from_pan(m.c, b, loc)
    IN IF c0.bot.cooked_queue = << >> THEN stay(set_as(c0, 4), b)
       ELSE IF holding # NoItem THEN stay(set_as(c, 3), b)
       ELSE IF loc = None THEN stay(c, b)
       ELSE IF ~m.ret THEN m.c
       ELSE IF pan.type = "Pan" /\ pan.pan_food # NoFood /\ pan.pan_food.cooked_stage = 1
       THEN (IF tk.ret THEN set_as(tk.c, 3) ELSE tk.c)
       ELSE m.c

\* assembler_state == 3: Add to plate
bb_assembler_3(c, b) ==
    LET r == bb_go(c, b, c.bot.active_assemble_loc, "add_food_to_plate")
        rest == IF c.bot.cooked_queue # << >> THEN Tail(c.bot.cooked_queue) ELSE << >>
    IN IF c.bot.active_assemble_loc = None THEN stay(c, b)
       ELSE IF r.ret
       THEN [r.c EXCEPT !.bot.cooked_queue = rest,
                        !.bot.assembler_state = IF rest # << >> THEN 2 ELSE 4]
       ELSE r.c

\* assembler_state == 4: Add simple
bb_assembler_4(c, b, holding, money) ==
    LET target_ing == IF c.bot.simple_ingredients # << >> THEN Head(c.bot.simple_ingredients)
                      ELSE IF c.bot.chopped_ingredients # << >>
                      THEN Head(c.bot.chopped_ingredients)
                      ELSE NoIng
        ft == FoodType[target_ing]
        r == bb_go(c, b, c.bot.active_assemble_loc, "add_food_to_plate")
        found_loc == find_counter_food(c, b, target_ing, ft.can_chop)
    IN IF target_ing = NoIng THEN stay(set_as(c, 5), b)
       ELSE IF holding # NoItem /\ c.bot.active_assemble_loc = None THEN stay(c, b)
       ELSE IF holding # NoItem /\ r.ret /\ c.bot.simple_ingredients # << >>
       THEN [r.c EXCEPT !.bot.simple_ingredients = Tail(@)]
       ELSE IF holding # NoItem /\ r.ret /\ c.bot.chopped_ingredients # << >>
       THEN [r.c EXCEPT !.bot.chopped_ingredients = Tail(@)]
       ELSE IF holding # NoItem THEN r.c
       ELSE IF found_loc # None THEN go_pickup_there(c, b, found_loc)
       ELSE IF c.bot.shop_loc # None /\ ~ft.can_chop /\ money >= ft.buy_cost
       THEN go_buy(c, b, Food(target_ing), ft.buy_cost)
       ELSE stay(c, b)

\* assembler_state == 5: Submit
bb_assembler_5(c, b, holding) ==
    LET r == bb_go(c, b, c.bot.submit_loc, "submit")
    IN IF holding # NoItem /\ holding.type = "Plate"
       THEN (IF c.bot.submit_loc = None THEN stay(c, b)
             ELSE IF r.ret THEN set_as(r.c, 0)
             ELSE r.c)
       ELSE IF c.bot.active_assemble_loc # None
       THEN go_pickup_there(c, b, c.bot.active_assemble_loc)
       ELSE stay(c, b)

\* play_assembler_bot(controller, bot_id, current_turn) of balanced_bot
bb_play_assembler_bot(c, b, current_turn) ==
    LET holding == c.sim.holding[b]
        money == c.sim.money
        st == c.bot.assembler_state
    IN IF c.bot.provider_state \in {3, 4, 5, 6, 7, 30, 31, 32, 33, 34}
          /\ holding = NoItem /\ st = 0
       THEN go_idle(c, b)
       ELSE CASE st = 0 -> bb_assembler_0(c, b, holding, money)
              [] st = 1 -> bb_assembler_1(c, b, holding)
              [] st = 2 -> bb_assembler_2(c, b, holding)
              [] st = 3 -> bb_assembler_3(c, b)
              [] st = 4 -> bb_assembler_4(c, b, holding, money)
              [] st = 5 -> bb_assembler_5(c, b, holding)
              [] OTHER -> stay(c, b)

\* ========================================================= claude_bot2.py
\* no entry in bot_assignments / helper_assignments
NoAssignment == [ingredient |-> NoIng, state |-> 0, cooker |-> None, done |-> FALSE]

NoHelper == [ingredient |-> NoIng, state |-> 0, counter |-> None]

NoBot == 0

\* BotPlayer.__init__ of claude_bot2
NewCbPlayer ==
    [ current_order |-> NoOrderId, current_order_id |-> NoOrderId,
      cooked_ingredients |-> << >>, chop_only_ingredients |-> << >>,
      simple_ingredients |-> << >>,
      bot_assignments |-> [b \in BotIds |-> NoAssignment],
      assembler_bot_id |-> NoBot, assembler_state |-> 0,
      bot_locations |-> [b \in BotIds |-> None],
      cached_turn |-> -1, cached_bot_positions |-> {},
      order_expired |-> FALSE, bot_needs_trash |-> {},
      helper_assignments |-> [b \in BotIds |-> NoHelper],
      prepared_chop_ingredients |-> << >>,
      chop_counter |-> None ]

\* get_bot_positions(controller, current_turn): the set cached for the turn
cb_get_bot_positions(c, current_turn) ==
    IF c.bot.cached_turn = current_turn THEN c
    ELSE [c EXCEPT !.bot.cached_turn = current_turn,
                   !.bot.cached_bot_positions = {c.sim.bot_pos[o] : o \in BotIds}]

\* move_towards(controller, bot_id, target_x, target_y, current_turn); the
\* result of controller.move is not looked at
cb_move_towards(c, b, target, current_turn) ==
    LET p == c.sim.bot_pos[b]
        cc == cb_get_bot_positions(c, current_turn)
        step == get_bfs_path("cb", p, target, cc.bot.cached_bot_positions \ {p})
    IN IF Cheb(p, target) <= 1 THEN [c |-> c, ret |-> TRUE]
       ELSE IF step # None /\ step # <<0, 0>>
       THEN [c |-> [move(cc, b, step).c EXCEPT !.log.moves[Len(cc.log.moves) + 1].goal = target],
             ret |-> FALSE]
       ELSE [c |-> cc, ret |-> FALSE]

\* "if self.move_towards(...): controller.<kind>(...)": the controller's answer
cb_act(c, b, loc, current_turn, kind, what, cost) ==
    LET m == cb_move_towards(c, b, loc, current_turn)
    IN IF ~m.ret THEN [c |-> m.c, ret |-> FALSE]
       ELSE CASE kind = "buy" -> buy(m.c, b, what, cost, loc)
              [] kind = "place" -> place(m.c, b, loc)
              [] kind = "pickup" -> pickup(m.c, b, loc)
              [] kind = "chop" -> chop(m.c, b, loc)
              [] kind = "take_from_pan" -> take_from_pan(m.c, b, loc)
              [] kind = "add_food_to_plate" -> add_food_to_plate(m.c, b, loc)
              [] kind = "submit" -> submit(m.c, b, loc)
              [] kind = "trash" -> trash(m.c, b, loc)

\* an action without an item to buy
cb_go(c, b, loc, current_turn, kind) == cb_act(c, b, loc, current_turn, kind, NoItem, 0)

\* score_order(order, current_turn) as the fraction num / den; expired orders
\* score -9999
cb_score_order(order, current_turn) ==
    LET turns_left == order.expires_turn - current_turn
        num_cooked == Len(SelectSeq(order.required, LAMBDA n : FoodType[n].can_cook))
        complexity == Len(order.required) + num_cooked
        urgency == IF turns_left < complexity * 8 THEN 3
                   ELSE IF turns_left < complexity * 15 THEN 2 ELSE 1
    IN IF ~order.is_active \/ turns_left <= 0 THEN [num |-> -9999, den |-> 1]
       ELSE [num |-> order.reward * urgency, den |-> Max2(complexity, 1)]

\* select_best_order(controller): the index of the best order, 0 for None
cb_select_best_order(c) ==
    LET orders == get_orders(c.sim)
        active == {i \in 1 .. Len(orders) : orders[i].is_active}
        sc(i) == cb_score_order(orders[i], c.sim.turn)
        best == CHOOSE i \in active :
                    /\ \A j \in active : ~FracGt(sc(j), sc(i))
                    /\ \A j \in active : j < i => FracGt(sc(i), sc(j))
    IN IF active = {} THEN 0
       ELSE IF sc(best).num > -9999 THEN best ELSE 0

\* analyze_order(order)
cb_analyze_order(c, order) ==
    [c EXCEPT !.bot.current_order = order.order_id,
              !.bot.current_order_id = order.order_id,
              !.bot.cooked_ingredients = SelectSeq(order.required, LAMBDA n : FoodType[n].can_cook),
              !.bot.chop_only_ingredients =
                  SelectSeq(order.required, LAMBDA n : ~FoodType[n].can_cook /\ FoodType[n].can_chop),
              !.bot.simple_ingredients =
                  SelectSeq(order.required, LAMBDA n : ~FoodType[n].can_cook /\ ~FoodType[n].can_chop)]

\* the nearest station of each kind, from where the bot stands
cb_locations_of(c, b) ==
    [shop |-> NearestIn(locations("SHOP"), c.sim.bot_pos[b]),
     cooker |-> NearestIn(locations("COOKER"), c.sim.bot_pos[b]),
     counter |-> NearestIn(locations("COUNTER"), c.sim.bot_pos[b]),
     submit |-> NearestIn(locations("SUBMIT"), c.sim.bot_pos[b]),
     trash |-> NearestIn(locations("TRASH"), c.sim.bot_pos[b])]

\* assign_cooking_tasks(controller): the i-th cooked ingredient goes to
\* my_bots[i % len(my_bots)], a later one replacing an earlier one
cb_assign_cooking_tasks(c) ==
    LET locs == [b \in BotIds |-> IF c.bot.bot_locations[b] = None
                                  THEN cb_locations_of(c, b) ELSE c.bot.bot_locations[b]]
        n == Len(my_bots)
        mine(k) == {i \in 1 .. Len(c.bot.cooked_ingredients) : my_bots[((i - 1) % n) + 1] = k}
        last(k) == CHOOSE i \in mine(k) : \A j \in mine(k) : j <= i
    IN [c EXCEPT !.bot.bot_locations = locs,
                 !.bot.assembler_bot_id = NoBot,
                 !.bot.assembler_state = 0,
                 !.bot.bot_assignments =
                     [k \in BotIds |->
                        IF mine(k) = {} THEN NoAssignment
                        ELSE [ingredient |-> c.bot.cooked_ingredients[last(k)], state |-> 0,
                              cooker |-> locs[k].cooker, done |-> FALSE]]]

\* play_cook(controller, bot_id, current_turn)
cb_play_cook(c, b, current_turn) ==
    LET a == c.bot.bot_assignments[b]
        holding == c.sim.holding[b]
        money == c.sim.money
        ingredient == a.ingredient
        cooker_loc == a.cooker
        shop_loc == c.bot.bot_locations[b].shop
        counter_loc == c.bot.bot_locations[b].counter
        trash_loc == c.bot.bot_locations[b].trash
        set(cx, st) == [cx EXCEPT !.bot.bot_assignments[b].state = st]
        then(r, st) == IF r.ret THEN set(r.c, st) ELSE r.c
    IN IF a = NoAssignment \/ a.done THEN c
       ELSE CASE a.state = 0 ->
                   IF cooker_loc = None THEN c
                   ELSE set(c, IF c.sim.item[cooker_loc].type = "Pan" THEN 3 ELSE 1)
              [] a.state = 1 ->
                   IF holding # NoItem THEN set(c, 2)
                   ELSE IF shop_loc # None /\ money >= ShopCosts.PAN.buy_cost
                   THEN cb_act(c, b, shop_loc, current_turn, "buy", Pan, ShopCosts.PAN.buy_cost).c
                   ELSE c
              [] a.state = 2 ->
                   IF cooker_loc = None THEN c
                   ELSE then(cb_go(c, b, cooker_loc, current_turn, "place"), 3)
              [] a.state = 3 ->
                   IF holding # NoItem THEN set(c, IF FoodType[ingredient].can_chop THEN 4 ELSE 7)
                   ELSE IF shop_loc # None /\ money >= FoodType[ingredient].buy_cost
                   THEN cb_act(c, b, shop_loc, current_turn, "buy", Food(ingredient),
                               FoodType[ingredient].buy_cost).c
                   ELSE c
              [] a.state = 4 ->
                   IF counter_loc = None THEN c
                   ELSE IF c.sim.item[counter_loc] # NoItem THEN c
                   ELSE then(cb_go(c, b, counter_loc, current_turn, "place"), 5)
              [] a.state = 5 ->
                   IF counter_loc = None THEN c
                   ELSE then(cb_go(c, b, counter_loc, current_turn, "chop"), 6)
              [] a.state = 6 ->
                   IF counter_loc = None THEN c
                   ELSE then(cb_go(c, b, counter_loc, current_turn, "pickup"), 7)
              [] a.state = 7 ->
                   IF cooker_loc = None THEN c
                   ELSE then(cb_go(c, b, cooker_loc, current_turn, "place"), 8)
              [] a.state = 8 ->
                   IF cooker_loc = None THEN c
                   ELSE IF c.sim.item[cooker_loc].type = "Pan"
                           /\ c.sim.item[cooker_loc].pan_food # NoFood
                   THEN (IF c.sim.item[cooker_loc].pan_food.cooked_stage = 1
                         THEN [c EXCEPT !.bot.bot_assignments[b].state = 9,
                                        !.bot.bot_assignments[b].done = TRUE]
                         ELSE IF c.sim.item[cooker_loc].pan_food.cooked_stage = 2
                         THEN then(cb_go(c, b, cooker_loc, current_turn, "take_from_pan"), 99)
                         ELSE c)
                   ELSE c
              [] a.state = 9 ->
                   IF shop_loc # None THEN cb_move_towards(c, b, shop_loc, current_turn).c ELSE c
              [] a.state = 99 ->
                   IF trash_loc = None THEN c
                   ELSE then(cb_go(c, b, trash_loc, current_turn, "trash"), 3)
              [] OTHER -> c

\* the first counter that is no helper's, whatever lies on it
cb_free_counter_any(c) ==
    LET used == {c.bot.helper_assignments[o].counter : o \in BotIds} \ {None}
        free == SelectSeq(locations("COUNTER"), LAMBDA k : k \notin used)
    IN IF free = << >> THEN None ELSE Head(free)

\* play_helper: the first free counter (no helper's counter, nothing on it)
cb_free_counter(c) ==
    LET used == {c.bot.helper_assignments[o].counter : o \in BotIds} \ {None}
        free == SelectSeq(locations("COUNTER"),
                          LAMBDA k : k \notin used /\ c.sim.item[k] = NoItem)
    IN IF free = << >> THEN None ELSE Head(free)

\* play_helper: the chop-only ingredients no helper works on and none has prepared
cb_open_ingredients(c) ==
    LET assigned == {c.bot.helper_assignments[o].ingredient : o \in BotIds} \ {NoIng}
        prepared == {c.bot.prepared_chop_ingredients[i].ingredient
                        : i \in 1 .. Len(c.bot.prepared_chop_ingredients)}
    IN SelectSeq(c.bot.chop_only_ingredients, LAMBDA n : n \notin assigned /\ n \notin prepared)

\* play_helper(controller, bot_id, current_turn)
cb_play_helper(c0, b, current_turn) ==
    LET c1 == IF c0.bot.bot_locations[b] = None
              THEN [c0 EXCEPT !.bot.bot_locations[b] = cb_locations_of(c0, b)]
              ELSE c0
        holding == c0.sim.holding[b]
        money == c0.sim.money
        shop_loc == c1.bot.bot_locations[b].shop
        open == cb_open_ingredients(c1)
        free_counter == cb_free_counter(c1)
        c == IF c1.bot.helper_assignments[b] = NoHelper /\ open # << >> /\ free_counter # None
             THEN [c1 EXCEPT !.bot.helper_assignments[b] =
                       [ingredient |-> Head(open), state |-> 0, counter |-> free_counter]]
             ELSE c1
        a == c.bot.helper_assignments[b]
        set(cx, st) == [cx EXCEPT !.bot.helper_assignments[b].state = st]
        chopped == cb_go(c, b, a.counter, current_turn, "chop")
    IN IF a = NoHelper THEN c
       ELSE CASE a.state = 0 ->
                   IF holding # NoItem THEN set(c, 1)
                   ELSE IF shop_loc # None /\ money >= FoodType[a.ingredient].buy_cost
                   THEN cb_act(c, b, shop_loc, current_turn, "buy", Food(a.ingredient),
                               FoodType[a.ingredient].buy_cost).c
                   ELSE c
              [] a.state = 1 ->
                   IF a.counter = None THEN c
                   ELSE LET r == cb_go(c, b, a.counter, current_turn, "place")
                        IN IF r.ret THEN set(r.c, 2) ELSE r.c
              [] a.state = 2 ->
                   IF a.counter = None THEN c
                   ELSE IF chopped.ret
                   THEN [set(chopped.c, 3) EXCEPT !.bot.prepared_chop_ingredients =
                             Append(@, [loc |-> a.counter, ingredient |-> a.ingredient])]
                   ELSE chopped.c
              [] a.state = 3 -> [c EXCEPT !.bot.helper_assignments[b] = NoHelper]
              [] OTHER -> c

\* play_assembler, state 2: the first bot in bot_assignments whose food is
\* done and lies cooked in its pan
cb_cooked_pans(c) ==
    SelectSeq(my_bots,
              LAMBDA o : /\ c.bot.bot_assignments[o] # NoAssignment
                         /\ c.bot.bot_assignments[o].done
                         /\ c.bot.bot_assignments[o].state = 9
                         /\ c.sim.item[c.bot.bot_assignments[o].cooker].type = "Pan"
                         /\ c.sim.item[c.bot.bot_assignments[o].cooker].pan_food # NoFood
                         /\ c.sim.item[c.bot.bot_assignments[o].cooker].pan_food.cooked_stage = 1)

\* play_assembler, state 4: the index of the first prepared entry for the ingredient
cb_prepared_index(c, ingredient) ==
    LET hits == {i \in 1 .. Len(c.bot.prepared_chop_ingredients) :
                    c.bot.prepared_chop_ingredients[i].ingredient = ingredient}
    IN IF hits = {} THEN 0 ELSE CHOOSE i \in hits : \A j \in hits : i <= j

\* the sequence without its i-th element: list.pop(i)
cb_pop(seq, i) == SubSeq(seq, 1, i - 1) \o SubSeq(seq, i + 1, Len(seq))

\* play_assembler(controller, bot_id, current_turn)
cb_play_assembler(c, b, current_turn) ==
    LET holding == c.sim.holding[b]
        money == c.sim.money
        locs == c.bot.bot_locations[b]
        shop_loc == IF locs = None THEN None ELSE locs.shop
        counter_loc == IF locs = None THEN None ELSE locs.counter
        submit_loc == IF locs = None THEN None ELSE locs.submit
        st == c.bot.assembler_state
        set(cx, s2) == [cx EXCEPT !.bot.assembler_state = s2]
        then(r, s2) == IF r.ret THEN set(r.c, s2) ELSE r.c
        pans == cb_cooked_pans(c)
        others == SelectSeq(locations("COUNTER"), LAMBDA k : k # counter_loc)
        chop_counter5 == IF others # << >> THEN Head(others) ELSE counter_loc
        ingredient4 == Head(c.bot.chop_only_ingredients)
        i4 == cb_prepared_index(c, ingredient4)
        c4 == [c EXCEPT !.bot.prepared_chop_ingredients = cb_pop(@, i4)]
    IN CASE st = 0 ->
              IF holding # NoItem THEN set(c, 1)
              ELSE IF shop_loc # None /\ money >= ShopCosts.PLATE.buy_cost
              THEN cb_act(c, b, shop_loc, current_turn, "buy", Plate, ShopCosts.PLATE.buy_cost).c
              ELSE c
         [] st = 1 ->
              IF counter_loc = None THEN c
              ELSE IF c.sim.item[counter_loc] # NoItem THEN c
              ELSE then(cb_go(c, b, counter_loc, current_turn, "place"), 2)
         [] st = 2 ->
              IF pans # << >>
              THEN then(cb_go(c, b, c.bot.bot_assignments[Head(pans)].cooker, current_turn,
                              "take_from_pan"), 3)
              ELSE set(c, 4)
         [] st = 3 ->
              IF counter_loc = None THEN c
              ELSE then(cb_go(c, b, counter_loc, current_turn, "add_food_to_plate"), 2)
         [] st = 4 ->
              IF c.bot.chop_only_ingredients = << >> THEN set(c, 8)
              ELSE IF i4 # 0
              THEN (IF holding # NoItem THEN set(c4, 7)
                    ELSE then(cb_go(c4, b, c.bot.prepared_chop_ingredients[i4].loc,
                                    current_turn, "pickup"), 7))
              ELSE IF holding # NoItem THEN set(c, 5)
              ELSE IF shop_loc # None /\ money >= FoodType[ingredient4].buy_cost
              THEN cb_act(c, b, shop_loc, current_turn, "buy", Food(ingredient4),
                          FoodType[ingredient4].buy_cost).c
              ELSE c
         [] st = 5 ->
              IF chop_counter5 = None THEN c
              ELSE IF c.sim.item[chop_counter5] # NoItem THEN c
              ELSE LET r == cb_go(c, b, chop_counter5, current_turn, "place")
                   IN IF r.ret THEN [set(r.c, 6) EXCEPT !.bot.chop_counter = chop_counter5]
                      ELSE r.c
         [] st = 6 ->
              IF c.bot.chop_counter = None THEN c
              ELSE then(cb_go(c, b, c.bot.chop_counter, current_turn, "chop"), 7)
         [] st = 7 ->
              IF holding # NoItem
              THEN (IF counter_loc = None THEN c
                    ELSE LET r == cb_go(c, b, counter_loc, current_turn, "add_food_to_plate")
                         IN IF r.ret
                            THEN [set(r.c, 4) EXCEPT !.bot.chop_only_ingredients = Tail(@)]
                            ELSE r.c)
              ELSE IF c.bot.chop_counter # None
              THEN cb_go(c, b, c.bot.chop_counter, current_turn, "pickup").c
              ELSE c
         [] st = 8 ->
              IF c.bot.simple_ingredients = << >> THEN set(c, 9)
              ELSE IF holding # NoItem
              THEN (IF counter_loc = None THEN c
                    ELSE LET r == cb_go(c, b, counter_loc, current_turn, "add_food_to_plate")
                         IN IF r.ret THEN [r.c EXCEPT !.bot.simple_ingredients = Tail(@)]
                            ELSE r.c)
              ELSE IF shop_loc # None
                      /\ money >= FoodType[Head(c.bot.simple_ingredients)].buy_cost
              THEN cb_act(c, b, shop_loc, current_turn, "buy",
                          Food(Head(c.bot.simple_ingredients)),
                          FoodType[Head(c.bot.simple_ingredients)].buy_cost).c
              ELSE c
         [] st = 9 ->
              IF counter_loc = None THEN c
              ELSE then(cb_go(c, b, counter_loc, current_turn, "pickup"), 10)
         [] st = 10 ->
              IF submit_loc = None THEN c
              ELSE then(cb_go(c, b, submit_loc, current_turn, "submit"), 11)
         [] st = 11 ->
              [c EXCEPT !.bot.current_order = NoOrderId,
                        !.bot.current_order_id = NoOrderId,
                        !.bot.bot_assignments = [k \in BotIds |-> NoAssignment],
                        !.bot.helper_assignments = [k \in BotIds |-> NoHelper],
                        !.bot.prepared_chop_ingredients = << >>,
                        !.bot.assembler_bot_id = NoBot,
                        !.bot.assembler_state = 0]
         [] OTHER -> c

\* play_turn: "Run each bot", the bots from index i to index n, one after another
RECURSIVE cb_run_upto(_, _, _, _)
cb_run_upto(c, i, n, current_turn) ==
    IF i > n THEN c
    ELSE cb_run_upto(IF my_bots[i] = c.bot.assembler_bot_id
                     THEN cb_play_assembler(c, my_bots[i], current_turn)
                     ELSE IF c.bot.bot_assignments[my_bots[i]] # NoAssignment
                     THEN cb_play_cook(c, my_bots[i], current_turn)
                     ELSE cb_play_helper(c, my_bots[i], current_turn),
                     i + 1, n, current_turn)

\* play_turn: "Run each bot", all bots from index i on
cb_run_bots(c, i, current_turn) == cb_run_upto(c, i, Len(my_bots), current_turn)

\* the locked order has reached its expires_turn
cb_expired(c) ==
    /\ c.bot.current_order # NoOrderId
    /\ c.sim.turn >= OrderRec(c.sim, c.bot.current_order).expires_turn

\* play_turn up to "Run each bot": the order selected and analysed, the
\* assembler named once all cooking is done; run tells whether an order is locked
cb_turn_prologue(c0) ==
    LET best == cb_select_best_order(c0)
        c1 == IF c0.bot.current_order = NoOrderId /\ best # 0
              THEN cb_assign_cooking_tasks(cb_analyze_order(c0, get_orders(c0.sim)[best]))
              ELSE c0
        assigned == {k \in BotIds : c1.bot.bot_assignments[k] # NoAssignment}
        all_cooking_done == \/ \A k \in assigned : c1.bot.bot_assignments[k].done
                            \/ c1.bot.cooked_ingredients = << >>
        c2 == IF all_cooking_done /\ c1.bot.assembler_bot_id = NoBot
              THEN [c1 EXCEPT !.bot.assembler_bot_id = my_bots[Len(my_bots)],
                              !.bot.assembler_state = 0]
              ELSE c1
    IN IF c1.bot.current_order = NoOrderId THEN [c |-> c1, run |-> FALSE]
       ELSE [c |-> c2, run |-> TRUE]

\* play_turn(controller) in a turn in which the locked order has not expired and
\* no bot is marked for trashing
cb_play_turn(c0) ==
    LET p == cb_turn_prologue(c0)
    IN IF p.run THEN cb_run_bots(p.c, 1, c0.sim.turn) ELSE p.c

\* =========================================================== real_bot_copy.py
\* str.upper() on the names met here
upper(name) ==
    CASE name = "Egg" -> "EGG"
      [] name = "noodles" -> "NOODLES"
      [] OTHER -> name

\* on_plate = [f['food_name'].upper() for f in h.get('food', [])]
rc_on_plate(food) == [i \in 1 .. Len(food) |-> upper(food[i])]

RECURSIVE rc_missing_from(_, _, _)
\* for r in required[i:]: if r.upper() not in on_plate: missing = r.upper(); break
rc_missing_from(required, on_plate, i) ==
    IF i > Len(required) THEN NoIng
    ELSE IF \A k \in 1 .. Len(on_plate) : on_plate[k] # upper(required[i])
    THEN upper(required[i])
    ELSE rc_missing_from(required, on_plate, i + 1)

\* (mutant) the plate is compared with the required list place by place
rc_missing_in_place(required, on_plate) ==
    IF \E i \in 1 .. Len(required) : i > Len(on_plate) \/ on_plate[i] # upper(required[i])
    THEN upper(required[CHOOSE i \in 1 .. Len(required) :
                           i > Len(on_plate) \/ on_plate[i] # upper(required[i])])
    ELSE NoIng

\* missing = None; for r in required: ...
rc_missing(required, on_plate) == rc_missing_from(required, on_plate, 1)

\* play_assembler_bot, state 1 with a plate in hand: the next state
rc_assemble(required, food) ==
    IF rc_missing(required, rc_on_plate(food)) = NoIng THEN 2 ELSE 10

\* play_assembler_bot, state 11 with the plate on the assembly counter: the
\* next state, or 11 and the ingredient to fetch
rc_fetch(required, food) ==
    IF rc_missing(required, rc_on_plate(food)) = NoIng THEN 13 ELSE 11

\* ------------------------------------------- real_bot_copy.py: the player
\* self.order_id = None
NoIndex == -1

\* locations[name][0] / locations[name][-1], None for an empty list
first_of(seq) == IF seq = << >> THEN None ELSE seq[1]

last_of(seq) == IF seq = << >> THEN None ELSE seq[Len(seq)]

\* BotPlayer.__init__, self.locations holding the list of the cells of every
\* tile name
NewRcPlayer ==
    [ shop_loc |-> first_of(locations("SHOP")),
      chop_counter |-> first_of(locations("COUNTER")),
      assembly_counter |-> last_of(locations("COUNTER")),
      cookers_locs |-> locations("COOKER"),
      boxes_locs |-> locations("BOX"),
      bot_states |-> [b \in BotIds |-> 0],
      order_id |-> NoIndex,
      provider_processed_count |-> 0 ]

\* moves = [(0, 1), (0, -1), (1, 0), (-1, 0)]
rc_moves == {<<0, 1>>, <<0, -1>>, <<1, 0>>, <<-1, 0>>}

RECURSIVE rc_layers(_, _, _, _)
\* the while loop of get_bfs_path, layer by layer: the length of the path to
\* the first cell that meets target_predicate, -1 when the queue runs empty
rc_layers(frontier, visited, goals, free) ==
    IF frontier \cap goals # {} THEN 0
    ELSE LET next == {k \in free \ visited : \E f \in frontier : Manhattan(f, k) = 1}
         IN IF next = {} THEN -1
            ELSE The({ IF d < 0 THEN -1 ELSE d + 1
                       : d \in {rc_layers(next, visited \cup next, goals, free)} })

\* get_bfs_path(controller, start, is_adjacent_to_target): path[0] of the
\* path found. random.shuffle(moves) decides which of the shortest paths is
\* found: every first step of a shortest path to a nearest cell next to the
\* target can be returned. {} stands for None and for (0, 0).
rc_get_bfs_path(c, start, target) ==
    LET obstacles == {c.sim.bot_pos[o] : o \in BotIds} \ {start}
        free == {k \in Cells : is_tile_walkable(k) /\ k \notin obstacles}
        goals == {k \in Cells : Cheb(k, target) <= 1}
        d == rc_layers({start}, {start}, goals, free)
    IN IF d <= 0 THEN {}
       ELSE {s \in rc_moves :
                /\ Plus(start, s) \in free
                /\ rc_layers({Plus(start, s)}, {start, Plus(start, s)}, goals, free) = d - 1}

\* move_towards(controller, bot_id, target_x, target_y)
rc_move_towards(c, b, target) ==
    IF target = None THEN {[c |-> c, ret |-> FALSE]}
    ELSE IF Cheb(c.sim.bot_pos[b], target) <= 1 THEN {[c |-> c, ret |-> TRUE]}
    ELSE LET steps == rc_get_bfs_path(c, c.sim.bot_pos[b], target)
         IN IF steps = {} THEN {[c |-> c, ret |-> FALSE]}
            ELSE {[c |-> move(c, b, s).c, ret |-> FALSE] : s \in steps}

\* if self.move_towards(...): <there>
rc_go(c, b, target, there(_)) ==
    {IF m.ret THEN there(m.c) ELSE m.c : m \in rc_move_towards(c, b, target)}

rc_set_state(c, b, n) == [c EXCEPT !.bot.bot_states[b] = n]

\* self.provider_processed_count += 1; self.bot_states[bot_id] = 0
rc_processed(c, b) ==
    [c EXCEPT !.bot.provider_processed_count = @ + 1, !.bot.bot_states[b] = 0]

\* def is_holding(name) of play_provider_bot
rc_is_holding(c, b, name) ==
    /\ c.sim.holding[b] # NoItem
    /\ upper(c.sim.holding[b].food_name) = upper(name)

\* controller.start_cook(bot_id, x, y): the food put into the pan cooks
start_cook(c, b, loc) ==
    ctl(c, b, "start_cook", loc,
        Reach(c.sim, b, loc) /\ c.sim.item[loc].type = "Pan"
            /\ c.sim.item[loc].pan_food # NoFood,
        c.sim)

\* --- STATE 0: Buy ---
rc_provider_0(c, b, target_name) ==
    IF rc_is_holding(c, b, target_name)
    THEN {rc_set_state(c, b, IF target_name \in {"MEAT", "ONION", "ONIONS"} THEN 1
                             ELSE IF target_name = "EGG" THEN 2
                             ELSE 4)}
    ELSE rc_go(c, b, c.bot.shop_loc,
               LAMBDA m : IF m.sim.money >= FoodType[upper(target_name)].buy_cost
                          THEN buy(m, b, Food(upper(target_name)),
                                   FoodType[upper(target_name)].buy_cost, c.bot.shop_loc).c
                          ELSE m)

\* --- STATE 1: Chop ---
rc_provider_1(c, b, target_name) ==
    LET item_name == upper(target_name)
        counter == c.bot.chop_counter
        item == c.sim.item[counter]
    IN IF rc_is_holding(c, b, item_name)
       THEN (IF item = NoItem
             THEN rc_go(c, b, counter, LAMBDA m : place(m, b, counter).c)
             ELSE {c})
       ELSE IF item # NoItem
       THEN (IF item.chopped
             THEN { IF r.ret
                    THEN rc_set_state(r.c, b, IF item_name \in {"ONION", "ONIONS"}
                                              THEN 3 ELSE 2)
                    ELSE r.c
                    : r \in {pickup(c, b, counter)} }
             ELSE {chop(c, b, counter).c})
       ELSE {c}

\* --- STATE 2: Cook ---
rc_provider_2(c, b) ==
    LET stoves == SelectSeq(c.bot.cookers_locs,
                            LAMBDA k : c.sim.item[k].type = "Pan"
                                       /\ c.sim.item[k].pan_food = NoFood)
    IN IF stoves = << >> THEN {c}
       ELSE rc_go(c, b, stoves[1],
                  LAMBDA m :
                     The({ IF ~p.ret THEN p.c
                           ELSE The({ IF s.ret THEN rc_processed(s.c, b) ELSE s.c
                                      : s \in {start_cook(p.c, b, stoves[1])} })
                           : p \in {place(m, b, stoves[1])} }))

\* the tile takes the food: empty, or holding food of the same name
rc_can_store(c, k, target_name) ==
    \/ c.sim.item[k] = NoItem
    \/ c.sim.item[k].type = "Food" /\ upper(c.sim.item[k].food_name) = upper(target_name)

\* --- STATE 3: Store Onions ---
rc_provider_3(c, b, target_name) ==
    LET boxes == SelectSeq(c.bot.boxes_locs, LAMBDA k : rc_can_store(c, k, target_name))
        target_box == IF boxes = << >> THEN c.bot.assembly_counter ELSE boxes[1]
    IN rc_go(c, b, target_box,
             LAMBDA m :
                IF rc_can_store(m, target_box, target_name)
                THEN The({ IF p.ret THEN rc_processed(p.c, b) ELSE p.c
                           : p \in {place(m, b, target_box)} })
                ELSE m)

\* --- STATE 4: Deliver Direct ---
rc_provider_4(c, b) ==
    LET a == c.bot.assembly_counter
    IN IF c.sim.item[a] = NoItem \/ c.sim.item[a].type = "Plate"
       THEN rc_go(c, b, a,
                  LAMBDA m : The({ IF p.ret THEN rc_processed(p.c, b) ELSE p.c
                                   : p \in {place(m, b, a)} }))
       ELSE {c}

\* play_provider_bot(bot_id, controller)
rc_play_provider_bot(c, b) ==
    LET orders == get_orders(c.sim)
        state == c.bot.bot_states[b]
    IN IF c.bot.shop_loc = None \/ c.bot.chop_counter = None THEN {c}
       ELSE IF c.bot.order_id >= Len(orders) THEN {c}
       ELSE IF c.bot.provider_processed_count >= Len(orders[c.bot.order_id + 1].required)
       THEN {c}
       ELSE LET target_name ==
                    orders[c.bot.order_id + 1].required[c.bot.provider_processed_count + 1]
            IN CASE state = 0 -> rc_provider_0(c, b, target_name)
                 [] state = 1 -> rc_provider_1(c, b, target_name)
                 [] state = 2 -> rc_provider_2(c, b)
                 [] state = 3 -> rc_provider_3(c, b, target_name)
                 [] state = 4 -> rc_provider_4(c, b)
                 [] OTHER -> {c}

\* get_ready_item_location(item_name, controller): the place alone; the
\* source is "STOVE" for a cooker, and a pickup otherwise
get_ready_item_location(c, item_name) ==
    LET name == upper(item_name)
        stoves == IF name \in {"MEAT", "EGG"}
                  THEN SelectSeq(c.bot.cookers_locs,
                                 LAMBDA k : /\ c.sim.item[k].type = "Pan"
                                            /\ c.sim.item[k].pan_food # NoFood
                                            /\ upper(c.sim.item[k].pan_food.food_name) = name
                                            /\ c.sim.item[k].pan_food.cooked_stage = 1)
                  ELSE << >>
        boxes == IF name \in {"ONION", "ONIONS"}
                 THEN SelectSeq(c.bot.boxes_locs,
                                LAMBDA k : /\ c.sim.item[k].type = "Food"
                                           /\ upper(c.sim.item[k].food_name) \in {"ONION", "ONIONS"})
                 ELSE << >>
        \* "if not ax: continue" also passes over a counter in column 0
        counters == SelectSeq(<<c.bot.assembly_counter, c.bot.chop_counter>>,
                              LAMBDA k : /\ k[1] # 0
                                         /\ c.sim.item[k].type = "Food"
                                         /\ upper(c.sim.item[k].food_name) = name
                                         /\ (name \in {"MEAT", "ONION", "ONIONS"}
                                                => c.sim.item[k].chopped))
    IN IF stoves # << >> THEN stoves[1]
       ELSE IF boxes # << >> THEN boxes[1]
       ELSE first_of(counters)

\* --- STATE 0: Get Clean Plate --- (on maps without a SINKTABLE)
rc_assembler_0(c, b) ==
    IF c.sim.holding[b].type = "Plate" THEN {rc_set_state(c, b, 1)}
    ELSE rc_go(c, b, c.bot.shop_loc,
               LAMBDA m : IF m.sim.money >= ShopCosts.PLATE.buy_cost
                          THEN buy(m, b, Plate, ShopCosts.PLATE.buy_cost, c.bot.shop_loc).c
                          ELSE m)

\* --- STATE 1: Assemble ---
rc_assembler_1(c, b) ==
    LET orders == get_orders(c.sim)
    IN IF c.sim.holding[b].type # "Plate" THEN {rc_set_state(c, b, 0)}
       ELSE IF c.bot.order_id = NoIndex \/ c.bot.order_id >= Len(orders) THEN {c}
       ELSE {rc_set_state(c, b, rc_assemble(orders[c.bot.order_id + 1].required,
                                            PlateNames(c.sim.holding[b])))}

\* --- STATE 2: Submit --- ("if not ux: return" also returns for column 0)
rc_assembler_2(c, b) ==
    LET submit_loc == first_of(locations("SUBMIT"))
    IN IF submit_loc = None THEN {c}
       ELSE IF submit_loc[1] = 0 THEN {c}
       ELSE rc_go(c, b, submit_loc,
                  LAMBDA m : The({ IF r.ret THEN rc_set_state(r.c, b, 0) ELSE r.c
                                   : r \in {submit(m, b, submit_loc)} }))

\* --- JUGGLE: STATE 10 (Drop) ---
rc_assembler_10(c, b) ==
    LET a == c.bot.assembly_counter
    IN rc_go(c, b, a,
             LAMBDA m : IF m.sim.item[a] = NoItem
                        THEN The({ IF p.ret THEN rc_set_state(p.c, b, 11) ELSE p.c
                                   : p \in {place(m, b, a)} })
                        ELSE m)

\* --- JUGGLE: STATE 11 (Fetch) ---
rc_assembler_11(c, b) ==
    LET a == c.bot.assembly_counter
        required == get_orders(c.sim)[c.bot.order_id + 1].required
        food == PlateNames(c.sim.item[a])
        missing == rc_missing(required, rc_on_plate(food))
        loc == get_ready_item_location(c, missing)
    IN IF c.sim.item[a].type # "Plate" THEN {rc_set_state(c, b, 0)}
       ELSE IF rc_fetch(required, food) = 13 THEN {rc_set_state(c, b, 13)}
       ELSE IF loc = None THEN {c}
       ELSE rc_go(c, b, loc,
                  LAMBDA m : The({ IF r.ret THEN rc_set_state(r.c, b, 12) ELSE r.c
                                   : r \in {IF tiles[loc] = "COOKER"
                                            THEN take_from_pan(m, b, loc)
                                            ELSE pickup(m, b, loc)} }))

\* --- JUGGLE: STATE 12 (Add) ---
rc_assembler_12(c, b) ==
    rc_go(c, b, c.bot.assembly_counter,
          LAMBDA m : The({ IF r.ret THEN rc_set_state(r.c, b, 13) ELSE r.c
                           : r \in {add_food_to_plate(m, b, c.bot.assembly_counter)} }))

\* --- JUGGLE: STATE 13 (Pickup) ---
rc_assembler_13(c, b) ==
    rc_go(c, b, c.bot.assembly_counter,
          LAMBDA m : The({ IF r.ret THEN rc_set_state(r.c, b, 1) ELSE r.c
                           : r \in {pickup(m, b, c.bot.assembly_counter)} }))

\* play_assembler_bot(bot_id, controller); no plate is ever dirty, so that
\* state 9 (Wash) is not entered
rc_play_assembler_bot(c, b) ==
    LET state == c.bot.bot_states[b]
    IN IF c.bot.shop_loc = None \/ c.bot.assembly_counter = None THEN {c}
       ELSE CASE state = 0 -> rc_assembler_0(c, b)
              [] state = 1 -> rc_assembler_1(c, b)
              [] state = 2 -> rc_assembler_2(c, b)
              [] state = 10 -> rc_assembler_10(c, b)
              [] state = 11 -> rc_assembler_11(c, b)
              [] state = 12 -> rc_assembler_12(c, b)
              [] state = 13 -> rc_assembler_13(c, b)
              [] OTHER -> {c}

RECURSIVE rc_skip_expired(_, _, _)
\* while self.order_id is not None and self.order_id < len(orders): ...
rc_skip_expired(c, orders, curr_turn) ==
    IF c.bot.order_id # NoIndex /\ c.bot.order_id < Len(orders)
       /\ orders[c.bot.order_id + 1].expires_turn <= curr_turn
    THEN rc_skip_expired([c EXCEPT !.bot.order_id = @ + 1,
                                   !.bot.provider_processed_count = 0],
                         orders, curr_turn)
    ELSE c

\* play_turn(controller)
rc_play_turn(c0) ==
    LET orders == get_orders(c0.sim)
        c1 == IF c0.bot.order_id = NoIndex /\ orders # << >>
              THEN [c0 EXCEPT !.bot.order_id = 0] ELSE c0
        c2 == rc_skip_expired(c1, orders, c0.sim.turn)
    IN IF c2.bot.order_id = NoIndex \/ c2.bot.order_id >= Len(orders) THEN {c2}
       ELSE UNION {rc_play_assembler_bot(c3, my_bots[2])
                   : c3 \in rc_play_provider_bot(c2, my_bots[1])}

\* ============================== claude_bot2.py: play_turn, expired orders
\* play_turn, "Check if current order has expired": every bot that holds
\* something is marked for trashing
cb_mark_expired(c) ==
    IF cb_expired(c)
    THEN [c EXCEPT !.bot.order_expired = TRUE,
                   !.bot.bot_needs_trash = @ \cup {b \in BotIds : c.sim.holding[b] # NoItem}]
    ELSE c

\* "if self.move_towards(...): if controller.<kind>(...): discard(bot_id)"
cb_rid(c, b, loc, current_turn, kind) ==
    LET a == cb_go(c, b, loc, current_turn, kind)
    IN IF a.ret THEN [a.c EXCEPT !.bot.bot_needs_trash = @ \ {b}] ELSE a.c

\* play_turn, "Handle trashing", one bot of bot_needs_trash; no plate of the
\* game is dirty, and a plate with food is cleared by the first trash
cb_trash_bot(c, b, current_turn) ==
    LET h == c.sim.holding[b]
        trash_loc == first_of(locations("TRASH"))
        counters == locations("COUNTER")
        cookers == locations("COOKER")
        pan_loc == IF cookers # << >> THEN cookers[1] ELSE first_of(counters)
    IN IF h = NoItem THEN [c EXCEPT !.bot.bot_needs_trash = @ \ {b}]
       ELSE IF h.type = "Pan"
       THEN (IF h.pan_food = NoFood
             THEN (IF pan_loc # None THEN cb_rid(c, b, pan_loc, current_turn, "place") ELSE c)
             ELSE IF trash_loc # None THEN cb_go(c, b, trash_loc, current_turn, "trash").c
             ELSE c)
       ELSE IF h.type = "Plate"
       THEN (IF h.plate_food = << >>
             THEN (IF counters # << >> THEN cb_rid(c, b, counters[1], current_turn, "place")
                   ELSE c)
             ELSE IF trash_loc # None THEN cb_go(c, b, trash_loc, current_turn, "trash").c
             ELSE c)
       ELSE IF trash_loc # None THEN cb_rid(c, b, trash_loc, current_turn, "trash")
       ELSE c

\* "for bot_id in list(self.bot_needs_trash)": the marked bots, from index i
RECURSIVE cb_trash_bots(_, _, _, _)
cb_trash_bots(c, marked, i, current_turn) ==
    IF i > Len(my_bots) THEN c
    ELSE cb_trash_bots(IF my_bots[i] \in marked THEN cb_trash_bot(c, my_bots[i], current_turn)
                       ELSE c,
                       marked, i + 1, current_turn)

\* "If all bots done trashing, reset order state"
cb_reset_order(c) ==
    IF c.bot.bot_needs_trash # {} THEN c
    ELSE [c EXCEPT !.bot.current_order = NoOrderId,
                   !.bot.current_order_id = NoOrderId,
                   !.bot.bot_assignments = [b \in BotIds |-> NoAssignment],
                   !.bot.helper_assignments = [b \in BotIds |-> NoHelper],
                   !.bot.prepared_chop_ingredients = << >>,
                   !.bot.assembler_bot_id = NoBot,
                   !.bot.assembler_state = 0,
                   !.bot.order_expired = FALSE]

\* play_turn(controller) of claude_bot2, the expiry check and the trashing
\* phase included
cb_play_turn_expiring(c0) ==
    LET c == cb_mark_expired(c0)
    IN IF c.bot.bot_needs_trash # {}
       THEN cb_reset_order(cb_trash_bots(c, c.bot.bot_needs_trash, 1, c0.sim.turn))
       ELSE cb_play_turn(c)

\* ================================================== a game of play_turn
MaxTurn == 36     \* turns played in a game
MaxVetoes == 1    \* turns of a game in which the simulator refuses a bot

\* the maps, as rows of tile names from y = 0 down; with each map the cells
\* the provider and the assembler may start on
KitchenA ==
    [rows |-> << <<"SHOP",  "COUNTER", "COUNTER", "COOKER", "TRASH">>,
                 <<"FLOOR", "FLOOR",   "FLOOR",   "FLOOR",  "FLOOR">>,
                 <<"FLOOR", "FLOOR",   "WALL",    "FLOOR",  "FLOOR">>,
                 <<"FLOOR", "FLOOR",   "FLOOR",   "FLOOR",  "SUBMIT">> >>,
     starts |-> { << <<1, 1>>, <<3, 1>> >>, << <<4, 2>>, <<0, 3>> >>,
                  << <<3, 1>>, <<3, 2>> >> }]

\* a kitchen with a single lane between the stations
KitchenB ==
    [rows |-> << <<"SHOP",  "COUNTER", "COOKER", "COUNTER", "SUBMIT">>,
                 <<"FLOOR", "FLOOR",   "FLOOR",  "FLOOR",   "FLOOR">>,
                 <<"TRASH", "WALL",    "FLOOR",  "WALL",    "WALL">> >>,
     starts |-> { << <<0, 1>>, <<4, 1>> >>, << <<3, 1>>, <<1, 1>> >> }]

Kitchens == {KitchenA, KitchenB}

Order(id, required, reward, created, expires) ==
    [order_id |-> id, required |-> required, reward |-> reward,
     created_turn |-> created, expires_turn |-> expires]

\* the order lists a game is played with
OrderBooks ==
    { << >>,
      << Order(1, <<"NOODLES">>, 10, 1, 30) >>,
      << Order(1, <<"EGG">>, 20, 1, 36) >>,
      << Order(1, <<"MEAT", "SAUCE">>, 40, 1, 36) >>,
      << Order(1, <<"EGG", "ONIONS">>, 40, 1, 36) >>,
      << Order(1, <<"ONIONS", "NOODLES">>, 30, 4, 36) >>,
      << Order(1, <<"NOODLES">>, 10, 1, 36), Order(2, <<"SAUCE">>, 30, 3, 36) >>,
      << Order(1, <<"NOODLES">>, 10, 1, 36), Order(2, <<"SAUCE">>, 11, 3, 36) >>,
      << Order(1, <<"SAUCE", "NOODLES">>, 30, 1, 5), Order(2, <<"NOODLES">>, 5, 1, 36) >>,
      << Order(1, <<"SAUCE">>, 10, 1, 36), Order(2, <<"ONIONS">>, 9, 2, 20) >>,
      << Order(1, <<"NOODLES">>, 10, 1, 36), Order(2, <<"SAUCE">>, 40, 6, 36) >>,
      << Order(1, <<"ONIONS">>, 10, 1, 2), Order(2, <<"EGG">>, 20, 3, 36) >> }

\* the money a team starts with
StartMoney == {3, 60}

\* the turns a food spends in the pan before it is cooked, and again before it burns
CookTurns == {2, 5}

NoLog == [moves |-> << >>, acts |-> << >>, plans |-> << >>,
          sel |-> [locked |-> NoOrderId, locked_active |-> FALSE, any_active |-> FALSE]]

TurnInit ==
    /\ \E k \in Kitchens :
         /\ map_w = Len(k.rows[1])
         /\ map_h = Len(k.rows)
         /\ tiles = [c \in CellsOf(Len(k.rows[1]), Len(k.rows)) |-> k.rows[c[2] + 1][c[1] + 1]]
         /\ \E st \in k.starts, book \in OrderBooks, m \in StartMoney, ct \in CookTurns,
                 vl \in {0, MaxVetoes} :
              sim = [turn |-> 1, money |-> m,
                     bot_pos |-> [b \in BotIds |-> st[b]],
                     holding |-> [b \in BotIds |-> NoItem],
                     item |-> [c \in CellsOf(Len(k.rows[1]), Len(k.rows)) |-> NoItem],
                     orders |-> book, completed |-> {},
                     cook_timer |-> 0, cook_turns |-> ct,
                     veto |-> 0, vetoes_left |-> vl]
    /\ player \in {"pp", "bb"}
    /\ pc = "select"
    /\ bot = NewBotPlayer
    /\ log = NoLog
    /\ bfs_variant = "off" /\ bfs_start = None /\ bfs_target = None
    /\ bfs_blocked = {} /\ bfs_st = << >>

Ctx == [sim |-> sim, bot |-> bot, log |-> log]

\* what the turn began with: the order locked, and the orders listed active
turn_start ==
    [locked |-> bot.current_order_id,
     locked_active |-> \E i \in 1 .. Len(sim.orders) :
                          /\ sim.orders[i].order_id = bot.current_order_id
                          /\ is_active(sim, sim.orders[i]),
     any_active |-> \E i \in 1 .. Len(sim.orders) : is_active(sim, sim.orders[i])]

\* play_turn, first part: positions, stations, the order decision
OrderSelection ==
    /\ pc = "select"
    /\ sim.turn <= MaxTurn
    /\ \E c \in {IF player = "pp"
                  THEN pp_order_selection([sim |-> sim, bot |-> bot, log |-> NoLog])
                  ELSE bb_order_selection([sim |-> sim, bot |-> bot, log |-> NoLog])} :
          /\ bot' = c.bot
          /\ sim' = c.sim
          /\ log' = [c.log EXCEPT !.sel = turn_start]
    /\ pc' = "provider"
    /\ UNCHANGED <<map_w, map_h, tiles, player>>
    /\ UNCHANGED bfs_vars

\* play_turn, second part: self.play_provider_bot(controller, my_bots[0], turn)
PlayProvider ==
    /\ pc = "provider"
    /\ \E c \in {IF player = "pp" THEN pp_play_provider_bot(Ctx, my_bots[1], sim.turn)
                  ELSE bb_play_provider_bot(Ctx, my_bots[1], sim.turn)} :
          bot' = c.bot /\ sim' = c.sim /\ log' = c.log
    /\ pc' = "assembler"
    /\ UNCHANGED <<map_w, map_h, tiles, player>>
    /\ UNCHANGED bfs_vars

\* play_turn, third part: self.play_assembler_bot(controller, my_bots[1], turn)
PlayAssembler ==
    /\ pc = "assembler"
    /\ \E c \in {IF player = "pp" THEN pp_play_assembler_bot(Ctx, my_bots[2], sim.turn)
                  ELSE bb_play_assembler_bot(Ctx, my_bots[2], sim.turn)} :
          bot' = c.bot /\ sim' = c.sim /\ log' = c.log
    /\ pc' = "end"
    /\ UNCHANGED <<map_w, map_h, tiles, player>>
    /\ UNCHANGED bfs_vars

\* the food in a pan cooks as the turns pass
cooked_stage_at(s, t) ==
    IF t >= 2 * s.cook_turns THEN 2 ELSE IF t >= s.cook_turns THEN 1 ELSE 0

\* the turn counter and the pans at the end of a turn
end_turn(s) ==
    LET cooking == {k \in DOMAIN s.item : s.item[k].type = "Pan" /\ s.item[k].pan_food # NoFood}
    IN [s EXCEPT !.turn = @ + 1,
                 !.cook_timer = IF cooking # {} THEN @ + 1 ELSE 0,
                 !.item = [k \in DOMAIN s.item |->
                             IF k \in cooking
                             THEN [s.item[k] EXCEPT !.pan_food.cooked_stage =
                                                        cooked_stage_at(s, s.cook_timer + 1)]
                             ELSE s.item[k]]]

\* the simulator ends the turn, and may refuse one bot in the turn to come
EndTurn ==
    /\ pc = "end"
    /\ \E v \in {0} \cup (IF sim.vetoes_left > 0 THEN BotIds ELSE {}) :
          sim' = [end_turn(sim) EXCEPT !.veto = v,
                                       !.vetoes_left = IF v = 0 THEN @ ELSE @ - 1]
    /\ pc' = "select"
    /\ UNCHANGED <<map_w, map_h, tiles, player, bot, log>>
    /\ UNCHANGED bfs_vars

Next == OrderSelection \/ PlayProvider \/ PlayAssembler \/ EndTurn

\* games in which the simulator carries out every call whose precondition holds
AcceptInit == TurnInit /\ sim.vetoes_left = 0

Spec == AcceptInit /\ [][Next]_vars

\* games in which the simulator may also refuse the calls of a bot
SpecReject == TurnInit /\ [][Next]_vars

\* ================================== a game of pp_bot that goes on for ever
NeverExpires == 1000    \* the expires_turn of an order no game outlasts
LiveTurn == 4           \* the turn counter is followed up to this turn

\* one order that does not expire
LiveBooks ==
    { << Order(1, <<"NOODLES">>, 10, 1, NeverExpires) >>,
      << Order(1, <<"EGG">>, 20, 1, NeverExpires) >>,
      << Order(1, <<"MEAT", "SAUCE">>, 40, 1, NeverExpires) >>,
      << Order(1, <<"EGG", "ONIONS">>, 40, 1, NeverExpires) >>,
      << Order(1, <<"ONIONS", "NOODLES">>, 30, LiveTurn, NeverExpires) >> }

\* pp_bot with 60 coins and a simulator that carries out every call whose
\* precondition holds
LiveInit ==
    /\ \E k \in Kitchens :
         /\ map_w = Len(k.rows[1])
         /\ map_h = Len(k.rows)
         /\ tiles = [c \in CellsOf(Len(k.rows[1]), Len(k.rows)) |-> k.rows[c[2] + 1][c[1] + 1]]
         /\ \E st \in k.starts, book \in LiveBooks, ct \in CookTurns :
              sim = [turn |-> 1, money |-> 60,
                     bot_pos |-> [b \in BotIds |-> st[b]],
                     holding |-> [b \in BotIds |-> NoItem],
                     item |-> [c \in CellsOf(Len(k.rows[1]), Len(k.rows)) |-> NoItem],
                     orders |-> book, completed |-> {},
                     cook_timer |-> 0, cook_turns |-> ct,
                     veto |-> 0, vetoes_left |-> 0]
    /\ player = "pp"
    /\ pc = "select"
    /\ bot = NewBotPlayer
    /\ log = NoLog
    /\ bfs_variant = "off" /\ bfs_start = None /\ bfs_target = None
    /\ bfs_blocked = {} /\ bfs_st = << >>

\* the end of a turn; the turn counter is followed up to LiveTurn (no order
\* is created or expires later) and the pan's clock up to the burning
end_turn_live(s) ==
    [end_turn(s) EXCEPT !.turn = IF s.turn >= LiveTurn THEN s.turn ELSE s.turn + 1,
                        !.cook_timer = IF @ > 2 * s.cook_turns THEN 2 * s.cook_turns ELSE @]

EndTurnLive ==
    /\ pc = "end"
    /\ sim' = end_turn_live(sim)
    /\ pc' = "select"
    /\ UNCHANGED <<map_w, map_h, tiles, player, bot, log>>
    /\ UNCHANGED bfs_vars

NextLive == OrderSelection \/ PlayProvider \/ PlayAssembler \/ EndTurnLive

\* play_turn runs its three parts to the end in every turn, and the game
\* engine ends every turn
SpecLive == LiveInit /\ [][NextLive]_vars /\ WF_vars(EndTurnLive) /\ []<>(pc = "end")

\* ================================================= a game of claude_bot2
\* one order, which outlasts the game
CbBooks ==
    { << Order(1, <<"EGG">>, 20, 1, NeverExpires) >>,
      << Order(1, <<"MEAT", "SAUCE">>, 40, 1, NeverExpires) >>,
      << Order(1, <<"EGG", "ONIONS">>, 40, 1, NeverExpires) >>,
      << Order(1, <<"MEAT", "EGG">>, 50, 1, NeverExpires) >>,
      << Order(1, <<"ONIONS", "NOODLES">>, 30, 4, NeverExpires) >> }

CbInit ==
    /\ \E k \in Kitchens :
         /\ map_w = Len(k.rows[1])
         /\ map_h = Len(k.rows)
         /\ tiles = [c \in CellsOf(Len(k.rows[1]), Len(k.rows)) |-> k.rows[c[2] + 1][c[1] + 1]]
         /\ \E st \in k.starts, book \in CbBooks, m \in StartMoney, ct \in CookTurns :
              sim = [turn |-> 1, money |-> m,
                     bot_pos |-> [b \in BotIds |-> st[b]],
                     holding |-> [b \in BotIds |-> NoItem],
                     item |-> [c \in CellsOf(Len(k.rows[1]), Len(k.rows)) |-> NoItem],
                     orders |-> book, completed |-> {},
                     cook_timer |-> 0, cook_turns |-> ct,
                     veto |-> 0, vetoes_left |-> 0]
    /\ player = "cb"
    /\ pc = "select"
    /\ bot = NewCbPlayer
    /\ log = NoLog
    /\ bfs_variant = "off" /\ bfs_start = None /\ bfs_target = None
    /\ bfs_blocked = {} /\ bfs_st = << >>

\* play_turn(controller) of claude_bot2, all bots of the team in one call
PlayTurnCb ==
    /\ pc = "select"
    /\ sim.turn <= MaxTurn
    /\ ~cb_expired(Ctx) /\ bot.bot_needs_trash = {}
    /\ \E c \in {cb_play_turn([sim |-> sim, bot |-> bot, log |-> NoLog])} :
          bot' = c.bot /\ sim' = c.sim /\ log' = c.log
    /\ pc' = "end"
    /\ UNCHANGED <<map_w, map_h, tiles, player>>
    /\ UNCHANGED bfs_vars

NextCb == PlayTurnCb \/ EndTurn

SpecCb == CbInit /\ [][NextCb]_vars

\* ===================================== games on a map with a second shop
\* the single-lane kitchen with a shop in the lower right as well
KitchenC ==
    [rows |-> << <<"SHOP",  "COUNTER", "COOKER", "COUNTER", "SUBMIT">>,
                 <<"FLOOR", "FLOOR",   "FLOOR",  "FLOOR",   "FLOOR">>,
                 <<"TRASH", "WALL",    "FLOOR",  "SHOP",    "WALL">> >>,
     starts |-> { << <<0, 1>>, <<4, 1>> >>, << <<3, 1>>, <<1, 1>> >> }]

ShopsInit ==
    /\ map_w = Len(KitchenC.rows[1])
    /\ map_h = Len(KitchenC.rows)
    /\ tiles = [c \in CellsOf(Len(KitchenC.rows[1]), Len(KitchenC.rows)) |->
                   KitchenC.rows[c[2] + 1][c[1] + 1]]
    /\ \E st \in KitchenC.starts, book \in OrderBooks, m \in StartMoney, ct \in CookTurns :
         sim = [turn |-> 1, money |-> m,
                bot_pos |-> [b \in BotIds |-> st[b]],
                holding |-> [b \in BotIds |-> NoItem],
                item |-> [c \in CellsOf(Len(KitchenC.rows[1]), Len(KitchenC.rows)) |-> NoItem],
                orders |-> book, completed |-> {},
                cook_timer |-> 0, cook_turns |-> ct,
                veto |-> 0, vetoes_left |-> 0]
    /\ player \in {"pp", "bb"}
    /\ pc = "select"
    /\ bot = NewBotPlayer
    /\ log = NoLog
    /\ bfs_variant = "off" /\ bfs_start = None /\ bfs_target = None
    /\ bfs_blocked = {} /\ bfs_st = << >>

SpecShops == ShopsInit /\ [][Next]_vars

\* ============================== calls of balanced_bot's order scorer
MaxRequired == 2      \* ingredients an order asks for

FoodNames == DOMAIN FoodType

\* the lists of at most n ingredient names
RequiredLists(n) == UNION {[1 .. k -> FoodNames] : k \in 1 .. n}

ScoreInit ==
    /\ map_w = 1 /\ map_h = 1
    /\ tiles = [c \in CellsOf(1, 1) |-> "FLOOR"]
    /\ player = "bb"
    /\ pc = "score"
    /\ \E req \in RequiredLists(MaxRequired), reward \in {10, 40}, t \in {1, 5} :
          sim = [turn |-> t, order |-> Order(1, req, reward, 1, 20)]
    /\ bot = << >>
    /\ log = << >>
    /\ bfs_variant = "off" /\ bfs_start = None /\ bfs_target = None
    /\ bfs_blocked = {} /\ bfs_st = << >>

\* self.order_score(order, current_turn), with the cost it charges
ScoreCall ==
    /\ pc = "score"
    /\ log' = [cost |-> estimate_order_cost(sim.order.required),
               score |-> bb_order_score(sim.order, sim.turn)]
    /\ pc' = "scored"
    /\ UNCHANGED <<map_w, map_h, tiles, player, sim, bot>>
    /\ UNCHANGED bfs_vars

ScoreNext == ScoreCall

SpecScore == ScoreInit /\ [][ScoreNext]_vars

\* ==================================================== the provider's record
\* Games in which the turn's log also keeps, from turn to turn, which
\* provider state play_provider_bot ran and for how many turns in a row.

\* the watchdog's limit, as the two bots are described
WatchLimit == IF player = "pp" THEN 20 ELSE 15

\* nothing ran yet (last_provider_state = -1 in __init__)
NoRun == [state |-> -1, turns |-> 0, entry |-> -1, same |-> 0]

\* the log of a turn that begins, with the provider's record r
WatchLog(r) == [f \in DOMAIN NoLog \cup {"run"} |-> IF f = "run" THEN r ELSE NoLog[f]]

WatchInit ==
    /\ \E k \in Kitchens :
         /\ map_w = Len(k.rows[1])
         /\ map_h = Len(k.rows)
         /\ tiles = [c \in CellsOf(Len(k.rows[1]), Len(k.rows)) |-> k.rows[c[2] + 1][c[1] + 1]]
         /\ \E st \in k.starts, book \in OrderBooks, m \in StartMoney, ct \in CookTurns :
              sim = [turn |-> 1, money |-> m,
                     bot_pos |-> [b \in BotIds |-> st[b]],
                     holding |-> [b \in BotIds |-> NoItem],
                     item |-> [c \in CellsOf(Len(k.rows[1]), Len(k.rows)) |-> NoItem],
                     orders |-> book, completed |-> {},
                     cook_timer |-> 0, cook_turns |-> ct,
                     veto |-> 0, vetoes_left |-> 0]
    /\ player \in {"pp", "bb"}
    /\ pc = "select"
    /\ bot = NewBotPlayer
    /\ log = WatchLog(NoRun)
    /\ bfs_variant = "off" /\ bfs_start = None /\ bfs_target = None
    /\ bfs_blocked = {} /\ bfs_st = << >>

\* the provider state whose branch of the state machine play_provider_bot
\* runs in this turn
provider_runs(c0, current_turn) ==
    LET c == IF player = "pp" THEN pp_provider_entry(c0, current_turn)
             ELSE bb_provider_entry(c0)
    IN IF provider_interrupted(c) THEN 100 ELSE c.bot.provider_state

\* the record after a turn that began with provider_state = entry and ran
\* the branch of state: turns counts the turns in a row that ran this branch;
\* same counts the turns in a row that began with the provider_state the
\* turn before began with, anew once the count has passed the limit
next_run(r, entry, state) ==
    [state |-> state,
     turns |-> IF state = r.state THEN r.turns + 1 ELSE 1,
     entry |-> entry,
     same |-> IF entry # r.entry THEN 0
              ELSE IF r.same > WatchLimit THEN 1
              ELSE r.same + 1]

\* play_turn, first part, the provider's record kept
WatchSelection ==
    /\ pc = "select"
    /\ sim.turn <= MaxTurn
    /\ \E c \in {IF player = "pp"
                  THEN pp_order_selection([sim |-> sim, bot |-> bot, log |-> WatchLog(log.run)])
                  ELSE bb_order_selection([sim |-> sim, bot |-> bot, log |-> WatchLog(log.run)])} :
          /\ bot' = c.bot
          /\ sim' = c.sim
          /\ log' = [c.log EXCEPT !.sel = turn_start]
    /\ pc' = "provider"
    /\ UNCHANGED <<map_w, map_h, tiles, player>>
    /\ UNCHANGED bfs_vars

\* play_turn, second part, which writes the provider's record
WatchProvider ==
    /\ pc = "provider"
    /\ \E c \in {IF player = "pp" THEN pp_play_provider_bot(Ctx, my_bots[1], sim.turn)
                  ELSE bb_play_provider_bot(Ctx, my_bots[1], sim.turn)} :
          /\ bot' = c.bot
          /\ sim' = c.sim
          /\ log' = [c.log EXCEPT !.run = next_run(log.run, bot.provider_state,
                                                   provider_runs(Ctx, sim.turn))]
    /\ pc' = "assembler"
    /\ UNCHANGED <<map_w, map_h, tiles, player>>
    /\ UNCHANGED bfs_vars

NextWatch == WatchSelection \/ WatchProvider \/ PlayAssembler \/ EndTurn

SpecWatch == WatchInit /\ [][NextWatch]_vars

\* ============================================== games of a team short of money
\* the money of a team that cannot pay for all of an order
ShortMoney == {3, 5, 12}

BrokeInit ==
    /\ \E k \in Kitchens :
         /\ map_w = Len(k.rows[1])
         /\ map_h = Len(k.rows)
         /\ tiles = [c \in CellsOf(Len(k.rows[1]), Len(k.rows)) |-> k.rows[c[2] + 1][c[1] + 1]]
         /\ \E st \in k.starts, book \in OrderBooks, m \in ShortMoney, ct \in CookTurns :
              sim = [turn |-> 1, money |-> m,
                     bot_pos |-> [b \in BotIds |-> st[b]],
                     holding |-> [b \in BotIds |-> NoItem],
                     item |-> [c \in CellsOf(Len(k.rows[1]), Len(k.rows)) |-> NoItem],
                     orders |-> book, completed |-> {},
                     cook_timer |-> 0, cook_turns |-> ct,
                     veto |-> 0, vetoes_left |-> 0]
    /\ player = "bb"
    /\ pc = "select"
    /\ bot = NewBotPlayer
    /\ log = NoLog
    /\ bfs_variant = "off" /\ bfs_start = None /\ bfs_target = None
    /\ bfs_blocked = {} /\ bfs_st = << >>

SpecBroke == BrokeInit /\ [][Next]_vars

\* ===================== the assembler of real_bot_copy looks at a plate
MaxPlate == 2      \* foods on a plate

\* the names of the foods on a plate, as the engine may spell them
PlateFoodNames == {"EGG", "NOODLES", "MEAT", "Egg", "noodles"}

\* the names an order asks for
OrderFoodNames == {"EGG", "NOODLES", "MEAT"}

PlateInit ==
    /\ map_w = 1 /\ map_h = 1
    /\ tiles = [c \in CellsOf(1, 1) |-> "FLOOR"]
    /\ player = "rc"
    /\ pc \in {"held", "on counter"}
    /\ \E required \in UNION {[1 .. k -> OrderFoodNames] : k \in 1 .. MaxRequired},
          food \in UNION {[1 .. k -> PlateFoodNames] : k \in 0 .. MaxPlate} :
          sim = [required |-> required, food |-> food]
    /\ bot = [state |-> IF pc = "held" THEN 1 ELSE 11]
    /\ log = << >>
    /\ bfs_variant = "off" /\ bfs_start = None /\ bfs_target = None
    /\ bfs_blocked = {} /\ bfs_st = << >>

\* play_assembler_bot in state 1, the plate in hand
JudgeHeld ==
    /\ pc = "held"
    /\ bot' = [state |-> rc_assemble(sim.required, sim.food)]
    /\ log' = [missing |-> rc_missing(sim.required, rc_on_plate(sim.food))]
    /\ pc' = "judged"
    /\ UNCHANGED <<map_w, map_h, tiles, player, sim>>
    /\ UNCHANGED bfs_vars

\* play_assembler_bot in state 11, the plate on the assembly counter
JudgeOnCounter ==
    /\ pc = "on counter"
    /\ bot' = [state |-> rc_fetch(sim.required, sim.food)]
    /\ log' = [missing |-> rc_missing(sim.required, rc_on_plate(sim.food))]
    /\ pc' = "judged"
    /\ UNCHANGED <<map_w, map_h, tiles, player, sim>>
    /\ UNCHANGED bfs_vars

PlateNext == JudgeHeld \/ JudgeOnCounter

SpecPlate == PlateInit /\ [][PlateNext]_vars

\* ============================================== games of real_bot_copy
\* a kitchen with one counter, away from the shop
KitchenD ==
    [rows |-> << <<"SHOP",  "WALL",  "WALL",  "COUNTER", "SUBMIT">>,
                 <<"FLOOR", "FLOOR", "FLOOR", "FLOOR",   "FLOOR">>,
                 <<"WALL",  "FLOOR", "FLOOR", "COOKER",  "TRASH">> >>,
     starts |-> { << <<0, 1>>, <<4, 1>> >>, << <<2, 1>>, <<1, 1>> >> }]

\* the orders of a game, some expiring while they are worked on
RcBooks ==
    { << Order(1, <<"NOODLES">>, 10, 1, 36) >>,
      << Order(1, <<"MEAT">>, 20, 1, 36) >>,
      << Order(1, <<"ONIONS", "NOODLES">>, 30, 1, 36) >>,
      << Order(1, <<"MEAT">>, 20, 1, 5), Order(2, <<"NOODLES">>, 10, 1, 36) >>,
      << Order(1, <<"NOODLES", "MEAT">>, 40, 1, 14), Order(2, <<"EGG">>, 20, 1, 36) >>,
      << Order(1, <<"SAUCE">>, 10, 1, 3), Order(2, <<"ONIONS">>, 10, 1, 36) >> }

RcInit ==
    /\ \E k \in {KitchenA, KitchenD} :
         /\ map_w = Len(k.rows[1])
         /\ map_h = Len(k.rows)
         /\ tiles = [c \in CellsOf(Len(k.rows[1]), Len(k.rows)) |-> k.rows[c[2] + 1][c[1] + 1]]
         /\ \E st \in k.starts, book \in RcBooks :
              sim = [turn |-> 1, money |-> 60,
                     bot_pos |-> [b \in BotIds |-> st[b]],
                     holding |-> [b \in BotIds |-> NoItem],
                     item |-> [c \in CellsOf(Len(k.rows[1]), Len(k.rows)) |-> NoItem],
                     orders |-> book, completed |-> {},
                     cook_timer |-> 0, cook_turns |-> 5,
                     veto |-> 0, vetoes_left |-> 0]
    /\ player = "rc"
    /\ pc = "select"
    /\ bot = NewRcPlayer
    /\ log = NoLog
    /\ bfs_variant = "off" /\ bfs_start = None /\ bfs_target = None
    /\ bfs_blocked = {} /\ bfs_st = << >>

\* play_turn(controller) of real_bot_copy
PlayTurnRc ==
    /\ pc = "select"
    /\ sim.turn <= MaxTurn
    /\ \E c \in rc_play_turn([sim |-> sim, bot |-> bot, log |-> NoLog]) :
          bot' = c.bot /\ sim' = c.sim /\ log' = c.log
    /\ pc' = "end"
    /\ UNCHANGED <<map_w, map_h, tiles, player>>
    /\ UNCHANGED bfs_vars

NextRc == PlayTurnRc \/ EndTurn

SpecRc == RcInit /\ [][NextRc]_vars

\* ---------------------------------------------------------------------------
\* analyze_order called again, in games of pp_bot and balanced_bot and on the
\* fields of copy.py

\* copy.py analyze_order(order), on the fields it reads and writes
cp_analyze_order(b, order) ==
    IF b.current_order_id = order.order_id THEN b
    ELSE LET cooked == SelectSeq(order.required, LAMBDA n : FoodType[n].can_cook)
             chops == SelectSeq(order.required,
                                LAMBDA n : ~FoodType[n].can_cook /\ FoodType[n].can_chop)
             simple == SelectSeq(order.required,
                                 LAMBDA n : ~FoodType[n].can_cook /\ ~FoodType[n].can_chop)
         IN [b EXCEPT !.current_order = order.order_id,
                      !.current_order_id = order.order_id,
                      !.cooked_ingredients = cooked,
                      !.chop_only_ingredients = chops,
                      !.simple_ingredients = simple,
                      !.cooked_count = 0,
                      !.cooked_total = Len(cooked),
                      !.assembled_cooked_count = 0]

\* copy.py BotPlayer.__init__, the fields of analyze_order
CopyNewBot ==
    [ current_order |-> NoOrderId, current_order_id |-> NoOrderId,
      cooked_ingredients |-> << >>, chop_only_ingredients |-> << >>,
      simple_ingredients |-> << >>,
      cooked_count |-> 0, cooked_total |-> 0, assembled_cooked_count |-> 0 ]

\* the orders copy.py is given
CopyOrders ==
    << Order(1, <<"EGG", "ONIONS", "NOODLES">>, 40, 1, 36),
       Order(2, <<"MEAT", "SAUCE">>, 30, 1, 36) >>

\* the last n elements of a list: what pop(0) leaves
Rest(s, n) == SubSeq(s, Len(s) - n + 1, Len(s))

\* copy.py after analyze_order(first) and some turns of work on the order:
\* cooked_count and assembled_cooked_count count up to cooked_total, the
\* chop-only and the simple list lose elements from the front
CopyWorked(first) ==
    LET a == cp_analyze_order(CopyNewBot, first)
    IN { [a EXCEPT !.cooked_count = k, !.assembled_cooked_count = m,
                   !.chop_only_ingredients = Rest(@, n),
                   !.simple_ingredients = Rest(@, q)] :
           k \in 0 .. a.cooked_total, m \in 0 .. a.cooked_total,
           n \in 0 .. Len(a.chop_only_ingredients),
           q \in 0 .. Len(a.simple_ingredients) }

CopyInit ==
    /\ \E k \in {KitchenA} :
         /\ map_w = Len(k.rows[1])
         /\ map_h = Len(k.rows)
         /\ tiles = [c \in CellsOf(Len(k.rows[1]), Len(k.rows)) |-> k.rows[c[2] + 1][c[1] + 1]]
    /\ player = "cp" /\ pc = "call"
    /\ \E i \in 1 .. Len(CopyOrders), j \in 1 .. Len(CopyOrders) :
          /\ sim = [orders |-> CopyOrders, arg |-> j]
          /\ bot \in CopyWorked(CopyOrders[i])
    /\ log = NoLog
    /\ bfs_variant = "off" /\ bfs_start = None /\ bfs_target = None
    /\ bfs_blocked = {} /\ bfs_st = << >>

\* copy.py: analyze_order(order)
CopyAnalyze ==
    /\ player = "cp" /\ pc = "call"
    /\ bot' = cp_analyze_order(bot, sim.orders[sim.arg])
    /\ pc' = "called"
    /\ UNCHANGED <<map_w, map_h, tiles, player, sim, log>>
    /\ UNCHANGED bfs_vars

\* analyze_order of the player, with the order it is working on
analyze_locked(c) ==
    LET orders == get_orders(c.sim)
        i == CHOOSE k \in 1 .. Len(orders) : orders[k].order_id = c.bot.current_order_id
    IN IF player = "pp" THEN pp_analyze_order(c, orders[i])
       ELSE bb_analyze_order(c, orders[i])

\* pp_bot, balanced_bot: at the end of a turn, analyze_order(the order whose id
\* is current_order_id)
AnalyzeAgain ==
    /\ player \in {"pp", "bb"} /\ pc = "end"
    /\ \E k \in 1 .. Len(get_orders(sim)) :
          get_orders(sim)[k].order_id = bot.current_order_id
    /\ bot' = analyze_locked(Ctx).bot
    /\ pc' = "analyzed"
    /\ UNCHANGED <<map_w, map_h, tiles, player, sim, log>>
    /\ UNCHANGED bfs_vars

\* the simulator ends the turn after the call
EndTurnAnalyzed ==
    /\ pc = "analyzed"
    /\ sim' = [end_turn(sim) EXCEPT !.veto = 0]
    /\ pc' = "select"
    /\ UNCHANGED <<map_w, map_h, tiles, player, bot, log>>
    /\ UNCHANGED bfs_vars

NextAnalyze == Next \/ AnalyzeAgain \/ EndTurnAnalyzed \/ CopyAnalyze

SpecAnalyze == (AcceptInit \/ CopyInit) /\ [][NextAnalyze]_vars

\* ============================== a game of claude_bot2 with orders that expire
ExpiryTurns == {3, 6, 10, 16}

CbRecipes == { <<"EGG">>, <<"ONIONS", "NOODLES">>, <<"EGG", "ONIONS">> }

\* one order that expires in the game, and one to go on with
CbExpiringBooks ==
    { << Order(1, r, 40, 1, e), Order(2, <<"ONIONS", "NOODLES">>, 10, 1, NeverExpires) >> :
          r \in CbRecipes, e \in ExpiryTurns }

CbExpiryInit ==
    /\ \E k \in Kitchens :
         /\ map_w = Len(k.rows[1])
         /\ map_h = Len(k.rows)
         /\ tiles = [c \in CellsOf(Len(k.rows[1]), Len(k.rows)) |-> k.rows[c[2] + 1][c[1] + 1]]
         /\ \E st \in k.starts, book \in CbExpiringBooks, ct \in CookTurns :
              sim = [turn |-> 1, money |-> 60,
                     bot_pos |-> [b \in BotIds |-> st[b]],
                     holding |-> [b \in BotIds |-> NoItem],
                     item |-> [c \in CellsOf(Len(k.rows[1]), Len(k.rows)) |-> NoItem],
                     orders |-> book, completed |-> {},
                     cook_timer |-> 0, cook_turns |-> ct,
                     veto |-> 0, vetoes_left |-> 0]
    /\ player = "cb"
    /\ pc = "select"
    /\ bot = NewCbPlayer
    /\ log = NoLog
    /\ bfs_variant = "off" /\ bfs_start = None /\ bfs_target = None
    /\ bfs_blocked = {} /\ bfs_st = << >>

\* what the turn began with: the locked order, whether it has expired, and
\* whether some bot holds an item
cb_turn_start ==
    [locked |-> bot.current_order, expired |-> cb_expired(Ctx),
     holding |-> {b \in BotIds : sim.holding[b] # NoItem},
     marked |-> bot.bot_needs_trash]

\* play_turn(controller) of claude_bot2, all bots of the team in one call
PlayTurnCbExpiring ==
    /\ pc = "select"
    /\ sim.turn <= MaxTurn
    /\ \E c \in {cb_play_turn_expiring([sim |-> sim, bot |-> bot, log |-> NoLog])} :
          bot' = c.bot /\ sim' = c.sim /\ log' = [c.log EXCEPT !.sel = cb_turn_start]
    /\ pc' = "end"
    /\ UNCHANGED <<map_w, map_h, tiles, player>>
    /\ UNCHANGED bfs_vars

NextCbExpiry == PlayTurnCbExpiring \/ EndTurn

SpecCbExpiry == CbExpiryInit /\ [][NextCbExpiry]_vars

\* ===================== assign_cooking_tasks of claude_bot2 on its own
MaxIngredients == 3

\* the orders of at most MaxIngredients ingredients
RequiredUpTo(n) == UNION {[1 .. k -> DOMAIN FoodType] : k \in 1 .. n}

AssignInit ==
    /\ \E k \in {KitchenB} :
         /\ map_w = Len(k.rows[1])
         /\ map_h = Len(k.rows)
         /\ tiles = [c \in CellsOf(Len(k.rows[1]), Len(k.rows)) |-> k.rows[c[2] + 1][c[1] + 1]]
         /\ \E st \in k.starts, r \in RequiredUpTo(MaxIngredients) :
              sim = [turn |-> 1, money |-> 60,
                     bot_pos |-> [b \in BotIds |-> st[b]],
                     holding |-> [b \in BotIds |-> NoItem],
                     item |-> [c \in CellsOf(Len(k.rows[1]), Len(k.rows)) |-> NoItem],
                     orders |-> << Order(1, r, 40, 1, NeverExpires) >>, completed |-> {},
                     cook_timer |-> 0, cook_turns |-> 2,
                     veto |-> 0, vetoes_left |-> 0]
    /\ player = "cb"
    /\ pc = "select"
    /\ bot = NewCbPlayer
    /\ log = NoLog
    /\ bfs_variant = "off" /\ bfs_start = None /\ bfs_target = None
    /\ bfs_blocked = {} /\ bfs_st = << >>

\* play_turn, "Select order if we don't have one": select_best_order,
\* analyze_order, assign_cooking_tasks
AssignCall ==
    /\ pc = "select"
    /\ cb_select_best_order(Ctx) # 0
    /\ \E c \in {cb_assign_cooking_tasks(
                    cb_analyze_order(Ctx, get_orders(sim)[cb_select_best_order(Ctx)]))} :
          bot' = c.bot
    /\ pc' = "assigned"
    /\ UNCHANGED <<map_w, map_h, tiles, player, sim, log>>
    /\ UNCHANGED bfs_vars

SpecAssign == AssignInit /\ [][AssignCall]_vars

\* ================== a game of claude_bot2 that remembers what helpers chopped
\* the log of a turn that begins, with the helpers' records so far
PrepLog(p) == [f \in DOMAIN NoLog \cup {"prep"} |-> IF f = "prep" THEN p ELSE NoLog[f]]

CbPrepInit ==
    /\ \E k \in Kitchens :
         /\ map_w = Len(k.rows[1])
         /\ map_h = Len(k.rows)
         /\ tiles = [c \in CellsOf(Len(k.rows[1]), Len(k.rows)) |-> k.rows[c[2] + 1][c[1] + 1]]
         /\ \E st \in k.starts, book \in CbBooks, m \in StartMoney, ct \in CookTurns :
              sim = [turn |-> 1, money |-> m,
                     bot_pos |-> [b \in BotIds |-> st[b]],
                     holding |-> [b \in BotIds |-> NoItem],
                     item |-> [c \in CellsOf(Len(k.rows[1]), Len(k.rows)) |-> NoItem],
                     orders |-> book, completed |-> {},
                     cook_timer |-> 0, cook_turns |-> ct,
                     veto |-> 0, vetoes_left |-> 0]
    /\ player = "cb"
    /\ pc = "select"
    /\ bot = NewCbPlayer
    /\ log = PrepLog({})
    /\ bfs_variant = "off" /\ bfs_start = None /\ bfs_target = None
    /\ bfs_blocked = {} /\ bfs_st = << >>

\* the (counter, ingredient) pairs that helpers append to
\* prepared_chop_ingredients in the turn from b0 to b1 (helper state 2 to 3)
newly_prepared(b0, b1) ==
    {[loc |-> b0.helper_assignments[h].counter,
      ingredient |-> b0.helper_assignments[h].ingredient] :
        h \in {k \in BotIds : /\ b0.helper_assignments[k].state = 2
                              /\ b1.helper_assignments[k].state = 3}}

\* play_turn(controller) of claude_bot2, the helpers' records kept for as
\* long as the order is the same
PlayTurnCbPrep ==
    /\ pc = "select"
    /\ sim.turn <= MaxTurn
    /\ ~cb_expired(Ctx) /\ bot.bot_needs_trash = {}
    /\ \E c \in {cb_play_turn([sim |-> sim, bot |-> bot, log |-> PrepLog({})])} :
          /\ bot' = c.bot
          /\ sim' = c.sim
          /\ log' = [c.log EXCEPT !.prep =
                        IF c.bot.current_order # bot.current_order THEN {}
                        ELSE log.prep \cup newly_prepared(bot, c.bot)]
    /\ pc' = "end"
    /\ UNCHANGED <<map_w, map_h, tiles, player>>
    /\ UNCHANGED bfs_vars

NextCbPrep == PlayTurnCbPrep \/ EndTurn

SpecCbPrep == CbPrepInit /\ [][NextCbPrep]_vars

\* ---------------------------------------------------------------------------
\* games of pp_bot with orders of two ingredients that are cooked

\* order lists with an order of two cooked ingredients: alone, expiring while
\* it is worked on, and with a better order arriving later
CookedBooks ==
    { << Order(1, <<"EGG", "EGG">>, 40, 1, 36) >>,
      << Order(1, <<"EGG", "MEAT">>, 40, 1, 36) >>,
      << Order(1, <<"EGG", "EGG", "NOODLES">>, 40, 1, 36) >>,
      << Order(1, <<"EGG", "EGG">>, 40, 1, 22), Order(2, <<"EGG">>, 20, 1, 36) >>,
      << Order(1, <<"EGG", "EGG">>, 10, 1, 36), Order(2, <<"EGG">>, 40, 12, 36) >> }

CookedInit ==
    /\ \E k \in Kitchens :
         /\ map_w = Len(k.rows[1])
         /\ map_h = Len(k.rows)
         /\ tiles = [c \in CellsOf(Len(k.rows[1]), Len(k.rows)) |-> k.rows[c[2] + 1][c[1] + 1]]
         /\ \E st \in k.starts, book \in OrderBooks \cup CookedBooks, m \in StartMoney,
                 ct \in CookTurns, vl \in {0, MaxVetoes} :
              sim = [turn |-> 1, money |-> m,
                     bot_pos |-> [b \in BotIds |-> st[b]],
                     holding |-> [b \in BotIds |-> NoItem],
                     item |-> [c \in CellsOf(Len(k.rows[1]), Len(k.rows)) |-> NoItem],
                     orders |-> book, completed |-> {},
                     cook_timer |-> 0, cook_turns |-> ct,
                     veto |-> 0, vetoes_left |-> vl]
    /\ player = "pp"
    /\ pc = "select"
    /\ bot = NewBotPlayer
    /\ log = NoLog
    /\ bfs_variant = "off" /\ bfs_start = None /\ bfs_target = None
    /\ bfs_blocked = {} /\ bfs_st = << >>

SpecCooked == CookedInit /\ [][Next]_vars

\* ------------------------------------------------- pathfinder on its own
\* while a pathfinder is studied on its own, no turn is being played
TurnOff == player = "off" /\ pc = "off" /\ sim = << >> /\ bot = << >> /\ log = << >>

WallSets == {S \in SUBSET CellsOf(GridW, GridH) : Cardinality(S) <= MaxWalls}

BfsInit ==
    /\ map_w = GridW
    /\ map_h = GridH
    /\ \E walls \in WallSets :
          tiles = [c \in CellsOf(GridW, GridH) |-> IF c \in walls THEN "WALL" ELSE "FLOOR"]
    /\ bfs_variant \in {"pp", "cb"}
    /\ bfs_start \in {c \in CellsOf(GridW, GridH) : tiles[c] = "FLOOR"}
    /\ bfs_target \in CellsOf(GridW, GridH)
    /\ bfs_blocked \in {S \in SUBSET {c \in CellsOf(GridW, GridH) : tiles[c] = "FLOOR" /\ c # bfs_start} :
                            Cardinality(S) <= MaxBlocked}
    /\ bfs_st = bfs_init(bfs_start)
    /\ TurnOff

\* one iteration of the search loop
BfsStep ==
    /\ ~bfs_st.done
    /\ bfs_st' = bfs_iter(bfs_variant, bfs_st, bfs_target, bfs_blocked)
    /\ UNCHANGED <<map_w, map_h, tiles, bfs_variant, bfs_start, bfs_target, bfs_blocked>>
    /\ UNCHANGED turn_vars

BfsNext == BfsStep

SpecBfs == BfsInit /\ [][BfsNext]_vars

\* The open map: no obstacle, nothing blocked; the whole call is one step.
OpenInit ==
    /\ map_w = OpenSize
    /\ map_h = OpenSize
    /\ tiles = [c \in CellsOf(OpenSize, OpenSize) |-> "FLOOR"]
    /\ bfs_variant \in {"pp", "cb"}
    /\ bfs_start \in CellsOf(OpenSize, OpenSize)
    /\ bfs_target \in CellsOf(OpenSize, OpenSize)
    /\ bfs_blocked = {}
    /\ bfs_st = bfs_init(bfs_start)
    /\ TurnOff

BfsCall ==
    /\ ~bfs_st.done
    /\ bfs_st' = [bfs_st EXCEPT !.queue = << >>, !.visited = {},
                                !.ret = get_bfs_path(bfs_variant, bfs_start, bfs_target, bfs_blocked),
                                !.done = TRUE]
    /\ UNCHANGED <<map_w, map_h, tiles, bfs_variant, bfs_start, bfs_target, bfs_blocked>>
    /\ UNCHANGED turn_vars

OpenNext == BfsCall

SpecOpen == OpenInit /\ [][OpenNext]_vars

\* ------------------------------------------- reference notions for claims
DirSet == {Dirs[i] : i \in 1 .. Len(Dirs)}

Walkable == {c \in Cells : tiles[c] = "FLOOR"}

Nbrs(c) == {n \in Cells : Cheb(n, c) = 1}

\* cells from which the action on bfs_target is possible
Goal == {c \in Cells : Cheb(c, bfs_target) <= 1}

\* cells a route may enter at its first step / at a later step
FirstAllowed == Walkable \ bfs_blocked

LaterAllowed(variant) == IF variant = "pp" THEN Walkable \ bfs_blocked ELSE Walkable

Unreachable == 0 - 1

\* least number of further moves from a cell of `frontier` to Goal through `allowed`
RECURSIVE RefLayers(_, _, _, _)
RefLayers(frontier, seen, k, allowed) ==
    IF frontier \cap Goal # {} THEN k
    ELSE IF frontier = {} THEN Unreachable
    ELSE LET next == {n \in allowed \ seen : \E c \in frontier : Cheb(n, c) = 1}
         IN RefLayers(next, seen \cup next, k + 1, allowed)

\* least number of moves from bfs_start to Goal under the variant's blocking rule
RefDistStart(variant) ==
    IF bfs_start \in Goal THEN 0
    ELSE LET first == Nbrs(bfs_start) \cap FirstAllowed
         IN RefLayers(first, first \cup {bfs_start}, 1, LaterAllowed(variant))

\* least number of moves from cell c (entered from bfs_start) to Goal; a route
\* is a simple path, it does not come back to bfs_start
RefDistFrom(c, variant) == RefLayers({c}, {c, bfs_start}, 0, LaterAllowed(variant))

IsStep(r) == r # None /\ r # <<0, 0>>

\* ------------------------------------------------------------------ C6
\* C6: get_bfs_path of pp_bot/balanced_bot returns (0,0) iff start is
\* Chebyshev-adjacent to target, returns None iff no cell adjacent to target
\* can be reached from start through walkable, unblocked cells, and otherwise
\* returns a step of {-1,0,1}^2 \ {(0,0)} into an in-grid, walkable,
\* unblocked cell.
C6_Contract ==
    (bfs_st.done /\ bfs_variant = "pp") =>
        /\ (bfs_st.ret = <<0, 0>>) <=> (Cheb(bfs_start, bfs_target) <= 1)
        /\ (bfs_st.ret = None) <=> (RefDistStart("pp") = Unreachable)
        /\ IsStep(bfs_st.ret) =>
              /\ bfs_st.ret \in DirSet
              /\ InGrid(Plus(bfs_start, bfs_st.ret))
              /\ is_tile_walkable(Plus(bfs_start, bfs_st.ret))
              /\ Plus(bfs_start, bfs_st.ret) \notin bfs_blocked

\* a search that returned a real step around an obstacle
C6_Witness ==
    /\ bfs_st.done /\ bfs_variant = "pp" /\ IsStep(bfs_st.ret)
    /\ bfs_blocked # {} /\ RefDistStart("pp") > Cheb(bfs_start, bfs_target) - 1

\* ------------------------------------------------------------------ C7
\* C7: a non-zero step returned by get_bfs_path (either variant) is the first
\* move of a route with the least possible number of 8-connected moves from
\* start to a cell adjacent to target, among the routes the variant's
\* blocking rule allows.
C7_ShortestFirstMove ==
    (bfs_st.done /\ IsStep(bfs_st.ret)) =>
        /\ Plus(bfs_start, bfs_st.ret) \in Nbrs(bfs_start) \cap FirstAllowed
        /\ RefDistStart(bfs_variant) # Unreachable
        /\ RefDistFrom(Plus(bfs_start, bfs_st.ret), bfs_variant) = RefDistStart(bfs_variant) - 1

\* a returned step on a route that obstacles make longer than the straight line
C7_Witness ==
    /\ bfs_st.done /\ IsStep(bfs_st.ret)
    /\ RefDistStart(bfs_variant) >= 3
    /\ RefDistStart(bfs_variant) > Cheb(bfs_start, bfs_target) - 1

\* ------------------------------------------------------------------ C8
\* C8: on a map without obstacles and with nothing blocked, from every start
\* that is not adjacent to the target the returned step strictly decreases
\* the Chebyshev distance to the target.
C8_StepDecreasesDistance ==
    (bfs_st.done /\ Walkable = Cells /\ bfs_blocked = {} /\ Cheb(bfs_start, bfs_target) > 1) =>
        /\ IsStep(bfs_st.ret)
        /\ Cheb(Plus(bfs_start, bfs_st.ret), bfs_target) < Cheb(bfs_start, bfs_target)

\* the spec's example: start (0,0), target (5,5) on the open 10x10 map
C8_Witness ==
    /\ bfs_st.done /\ map_w >= 10 /\ map_h >= 10 /\ Walkable = Cells /\ bfs_blocked = {}
    /\ bfs_start = <<0, 0>> /\ bfs_target = <<5, 5>>
    /\ bfs_st.ret = <<1, 1>>

\* ------------------------------------------------------------------ C9
\* C9 as claimed: in the pp_bot/balanced_bot pathfinder blocked cells are
\* forbidden only as the first step, so a target that can be reached when
\* blocked cells may be crossed at the second or a later step yields a step.
C9_Original ==
    (bfs_st.done /\ bfs_variant = "pp" /\ RefDistStart("cb") # Unreachable) =>
        bfs_st.ret # None

\* C9 as amended: in the pp_bot/balanced_bot pathfinder blocked cells are
\* forbidden at every step: the search never enters a blocked cell, and when
\* every route from start to the target's neighbourhood passes through a
\* blocked cell (at whatever step) get_bfs_path returns None.
C9_BlockedAtEveryDepth ==
    (bfs_variant = "pp") =>
        /\ bfs_st.visited \cap bfs_blocked = {}
        /\ \A i \in 1 .. Len(bfs_st.queue) : bfs_st.queue[i][1] \notin bfs_blocked
        /\ (bfs_st.done /\ RefDistStart("pp") = Unreachable) => bfs_st.ret = None

\* the first step is free, only a later step is blocked, and the result is None
C9_Witness ==
    /\ bfs_st.done /\ bfs_variant = "pp" /\ bfs_st.ret = None
    /\ Nbrs(bfs_start) \cap FirstAllowed # {}
    /\ RefDistStart("cb") # Unreachable /\ RefDistStart("cb") >= 2

\* ----------------------------------------------------------------- C10
\* C10: in the claude_bot2/copy pathfinder a cell occupied by another bot is
\* excluded only as the first move: the returned step never enters an
\* occupied cell, and a target reachable by a route whose first move is free
\* is reached (non-None) even if the route crosses an occupied cell later.
C10_BlockedFirstStepOnly ==
    (bfs_st.done /\ bfs_variant = "cb") =>
        /\ IsStep(bfs_st.ret) => Plus(bfs_start, bfs_st.ret) \notin bfs_blocked
        /\ (RefDistStart("cb") # Unreachable) => bfs_st.ret # None

\* every route crosses the occupied cell at depth 2 or more, and a step is returned
C10_Witness ==
    /\ bfs_st.done /\ bfs_variant = "cb" /\ IsStep(bfs_st.ret)
    /\ RefDistStart("pp") = Unreachable


\* ----------------------------------------------------------------- C26
\* the cells waiting in the queue
QueueCells(st) == {st.queue[i][1] : i \in 1 .. Len(st.queue)}

\* C26 (the queue): the queued cells are distinct, visited cells of the grid
C26_QueueDistinct ==
    /\ bfs_st.visited \subseteq Cells
    /\ QueueCells(bfs_st) \subseteq bfs_st.visited
    /\ Cardinality(QueueCells(bfs_st)) = Len(bfs_st.queue)

\* C26 (one iteration): an iteration that expands a cell pops the head and
\* appends cells that were not visited before, each once, and marks exactly
\* these as visited
C26_AddedOnce ==
    [][~bfs_st'.done =>
          LET old == bfs_st.queue
              new == bfs_st'.queue
              added == {i \in Len(old) .. Len(new) : TRUE}
          IN /\ SubSeq(new, 1, Len(old) - 1) = Tail(old)
             /\ \A i \in added : new[i][1] \notin bfs_st.visited
             /\ \A i, j \in added : i # j => new[i][1] # new[j][1]
             /\ bfs_st'.visited = bfs_st.visited \cup {new[i][1] : i \in added}]_vars

\* the iterations a search can still make: the cells in the queue and the
\* walkable cells not yet visited
Remaining(st) == Len(st.queue) + Cardinality(Walkable \ st.visited)

\* C26 (the loop): every iteration that does not return lowers Remaining,
\* a natural number, by one
C26_Countdown == [][~bfs_st'.done => Remaining(bfs_st') = Remaining(bfs_st) - 1]_vars

\* C26: get_bfs_path terminates on every finite grid for every start, target
\* and blocked set (the number of iterations left falls with every iteration
\* that does not return), and adds each grid cell to the visited set and to
\* the queue at most once.
C26_Terminates == []C26_QueueDistinct /\ C26_AddedOnce /\ C26_Countdown

\* a search that came to its end after it had visited five cells or more
\* around a blocked cell
C26_Witness ==
    /\ bfs_st.done /\ bfs_st.ret = None
    /\ bfs_blocked # {}
    /\ Cardinality(bfs_st.visited) >= 5

\* ------------------------------------------- reference notions for claims
\* the ids of the orders the simulator lists as active
ActiveIds(s) == {s.orders[i].order_id : i \in {j \in 1 .. Len(s.orders) : is_active(s, s.orders[j])}}

Moves == {log.moves[i] : i \in 1 .. Len(log.moves)}

Acts == {log.acts[i] : i \in 1 .. Len(log.acts)}

\* the order decision of this turn has been taken
Selected == pc \in {"provider", "assembler", "end"}

\* ------------------------------------------------------------------ C1
\* C1: within one play_turn of pp_bot or balanced_bot no two bots are issued
\* a move into the same destination cell, and no bot is issued a move into
\* the cell another bot of the team stands on after that bot's own move (or
\* non-move) of the turn.
C1_NoSelfCollision ==
    /\ \A m, n \in Moves : m.bot # n.bot => m.to # n.to
    /\ pc = "end" => \A m \in Moves : \A o \in BotIds \ {m.bot} : m.to # sim.bot_pos[o]

\* a turn in which the assembler moved although its shortest route began with
\* the cell the provider stands on after its own move or non-move
C1_Witness ==
    /\ pc = "end"
    /\ \E n \in Moves :
          /\ n.bot = my_bots[2] /\ n.ok
          /\ get_bfs_path("pp", n.from, n.goal, {}) # None
          /\ Plus(n.from, get_bfs_path("pp", n.from, n.goal, {})) = sim.bot_pos[my_bots[1]]

\* ------------------------------------------------------------------ C2
\* C2: every action primitive play_turn invokes (buy, place, pickup, chop,
\* take_from_pan, add_food_to_plate, submit, trash) is invoked while the
\* acting bot stands within Chebyshev distance 1 of the action's target tile.
C2_AdjacencyPrecondition ==
    \A a \in Acts : Cheb(a.pos, a.loc) <= 1

\* a plate was handed in: the bots had to walk from station to station
C2_Witness ==
    \E a \in Acts : a.kind = "submit" /\ a.ok /\ Cheb(a.pos, bot.shop_loc) > 1

\* ------------------------------------------------------------------ C3
\* the locked order is listed active
LockedActive == bot.current_order_id # NoOrderId /\ bot.current_order_id \in ActiveIds(sim)

\* what play_turn scores the orders with
ScoringCtx == [begin_turn(Ctx) EXCEPT !.bot.map_inventory = scan_map_for_ingredients(sim)]

\* the best active order of the turn, as the player ranks the orders
BestOrder ==
    IF player = "pp"
    THEN get_orders(sim)[pp_select_best_order(ScoringCtx, get_orders(sim), sim.turn)]
    ELSE get_orders(sim)[bb_select_best_order(get_orders(sim), sim.turn)]

\* the best active order is another one than the locked order and outscores
\* it by the margin the player asks for: any margin in balanced_bot; more
\* than half as much again in pp_bot, and only before the assembling began
Outscored ==
    LET K == OrderRec(sim, bot.current_order_id)
        sj == pp_order_score(ScoringCtx, BestOrder, sim.turn)
        sk == pp_order_score(ScoringCtx, K, sim.turn)
    IN /\ BestOrder.order_id # K.order_id
       /\ IF player = "pp"
          THEN /\ bot.items_on_plate = 0 /\ bot.assembler_state < 2
               /\ 2 * sj.num * sk.den > 3 * sk.num * sj.den
          ELSE bb_order_score(BestOrder, sim.turn).score_x2
                   > bb_order_score(K, sim.turn).score_x2

\* what the provider of balanced_bot is about to pay for
ProviderBuyCost ==
    CASE bot.provider_state = 1 -> ShopCosts.PAN.buy_cost
      [] bot.provider_state = 3 /\ bot.current_cooking_ingredient # NoIng ->
             FoodType[bot.current_cooking_ingredient].buy_cost
      [] bot.provider_state = 30 /\ bot.current_chop_ingredient # NoIng ->
             FoodType[bot.current_chop_ingredient].buy_cost
      [] OTHER -> 0

\* C3 (as stated): once play_turn has locked onto order K, current_order_id
\* stays K in every step for as long as K is listed active, even if another
\* active order with a higher score appears.
C3_Original ==
    [][(LockedActive /\ bot.current_order_id \in ActiveIds(sim'))
          => bot'.current_order_id = bot.current_order_id]_vars

\* C3 (amended): while the locked order K is listed active, the order
\* decision of play_turn keeps K unless the best active order is another
\* order that outscores K (balanced_bot: by any margin; pp_bot: by more than
\* 1.5 times, with nothing on the plate and assembler_state < 2), and then
\* locks onto that order; outside the order decision current_order_id
\* changes only when the provider of balanced_bot cannot pay for its next
\* purchase and unlocks.
C3_SwitchOnlyToBetter ==
    [][LockedActive =>
          /\ pc = "select" =>
                 bot'.current_order_id =
                     IF Outscored THEN BestOrder.order_id ELSE bot.current_order_id
          /\ (pc # "select" /\ bot'.current_order_id # bot.current_order_id) =>
                 /\ player = "bb" /\ pc = "provider"
                 /\ bot'.current_order_id = NoOrderId
                 /\ sim.money < ProviderBuyCost]_vars

\* the order decision left an active order for a better one
C3_Witness ==
    /\ pc = "provider"
    /\ log.sel.locked # NoOrderId /\ log.sel.locked_active
    /\ bot.current_order_id \notin {log.sel.locked, NoOrderId}

\* ------------------------------------------------------------------ C4
\* C4: if at the start of a turn the locked order is no longer active and at
\* least one active order exists, then after the order decision of that turn
\* current_order_id is the id of an active order and provider_state and
\* assembler_state are both 0.
C4_Reselect ==
    (pc = "provider" /\ log.sel.locked # NoOrderId
        /\ ~log.sel.locked_active /\ log.sel.any_active) =>
        /\ bot.current_order_id \in ActiveIds(sim)
        /\ bot.provider_state = 0
        /\ bot.assembler_state = 0

\* the locked order ran out unserved and another order was taken up
C4_Witness ==
    /\ pc = "provider" /\ log.sel.locked # NoOrderId
    /\ ~log.sel.locked_active /\ log.sel.any_active
    /\ log.sel.locked \notin sim.completed
    /\ bot.current_order_id \in ActiveIds(sim) \ {log.sel.locked}

\* ------------------------------------------------------------------ C5
\* C5 (as stated): in balanced_bot select_best_order returns None exactly
\* when no order is active, and in a turn that starts with no active order
\* neither the provider nor the assembler issues a buy.
C5_Original ==
    player = "bb" =>
        /\ (bb_select_best_order(get_orders(sim), sim.turn) = 0) <=> (ActiveIds(sim) = {})
        /\ (Selected /\ ~log.sel.any_active) => \A a \in Acts : a.kind # "buy"

\* ----------------------------------------------------------------- C12
Plans == {log.plans[i] : i \in 1 .. Len(log.plans)}

\* the calls and searches a bot has made so far in the turn
CallsOf(b) == {m \in Moves : m.bot = b} \cup {a \in Acts : a.bot = b}

\* C12: in pp_bot and balanced_bot the provider (my_bots[0]) is processed
\* before the assembler (my_bots[1]): nothing is asked of the assembler until
\* the provider has been played; every future_positions[b] recorded in a turn
\* is bot b's true position after its processing (the position plus the step
\* only when controller.move succeeded, the unchanged position otherwise); and
\* the blocked set of every search holds the true position, at that moment,
\* of every other bot.
C12_SequentialCommit ==
    /\ pc = "provider" => Moves = {} /\ Acts = {} /\ Plans = {}
    /\ pc = "assembler" => CallsOf(my_bots[2]) = {} /\ \A p \in Plans : p.bot = my_bots[1]
    /\ pc \in {"assembler", "end"} =>
          \A b \in BotIds : bot.future_positions[b] # None
                               => bot.future_positions[b] = sim.bot_pos[b]
    /\ \A p \in Plans : p.others \subseteq p.blocked

\* the provider moved, the assembler then searched with the provider's new
\* cell blocked and its old cell free; and a move the simulator refused left
\* the bot's recorded position where it was
C12_Witness ==
    /\ pc = "end"
    /\ \E m \in Moves, p \in Plans :
          /\ m.bot = my_bots[1] /\ m.ok /\ p.bot = my_bots[2]
          /\ m.to \in p.blocked /\ m.from \notin p.blocked
    /\ \E m \in Moves : m.bot = my_bots[2] /\ ~m.ok /\ bot.future_positions[m.bot] = m.from

\* ----------------------------------------------------------------- C13
\* the searches of bot b in which get_bfs_path returned None
NoPath(b) == {p \in Plans : p.bot = b /\ p.step = None}

\* C13 (the calls): a bot whose get_bfs_path returned None in a turn is issued
\* no controller.move and no action primitive in that turn, and its committed
\* position (future_positions) is the position it stood on.
C13_StaysPut ==
    \A b \in BotIds :
        NoPath(b) # {} =>
            /\ CallsOf(b) = {}
            /\ \A p \in NoPath(b) :
                  /\ p.from = sim.bot_pos[b]
                  /\ bot.future_positions[b] = p.from

\* C13 (the state): the handler of a bot whose get_bfs_path returned None
\* leaves that bot's state-machine state as it found it.
C13_StateKept ==
    [][/\ (pc = "provider" /\ NoPath(my_bots[1])' # {}
              => bot'.provider_state = bot.provider_state)
       /\ (pc = "assembler" /\ NoPath(my_bots[2])' # {}
              => bot'.assembler_state = bot.assembler_state)]_vars

NumCalls(b) ==
    Cardinality({i \in 1 .. Len(log.moves) : log.moves[i].bot = b})
    + Cardinality({i \in 1 .. Len(log.acts) : log.acts[i].bot = b})

\* C14: in every turn each bot is issued at most one mutating simulator
\* call: a single move or a single action primitive, never a move plus an
\* action and never two action primitives, also not after a first action
\* returned failure.
C14_Original == \A b \in BotIds : NumCalls(b) <= 1

\* ----------------------------------------------------------------- C15
\* the stations bot b has been sent to so far in the turn: the targets of
\* its searches and of its action primitives, the floor tiles on which a bot
\* only waits left out
TargetsOf(b) ==
    {t \in {p.target : p \in {p \in Plans : p.bot = b}}
            \cup {a.loc : a \in {a \in Acts : a.bot = b}} : ~is_tile_walkable(t)}

\* the counters the provider has locked for chopping
chop_locks == {bot.active_chop_loc, bot.pipeline_chop_loc} \ {None}

\* C15 (targets): in pp_bot the provider and the assembler are never sent to
\* the same tile in a turn, unless it is the trash tile.
C15_NoSharedTarget ==
    player = "pp" =>
        \A t \in TargetsOf(my_bots[1]) \cap TargetsOf(my_bots[2]) : tiles[t] = "TRASH"

\* C15 (counters): in pp_bot the counter locked as active_chop_loc or
\* pipeline_chop_loc is never the counter locked as active_assemble_loc.
C15_NoSharedCounter ==
    player = "pp" /\ bot.active_assemble_loc # None => bot.active_assemble_loc \notin chop_locks

\* C15: no double-booking in pp_bot: the provider and the assembler never
\* have the same tile as the target of their current tasks, other than the
\* trash tile; in particular active_chop_loc (or pipeline_chop_loc) and
\* active_assemble_loc are never the same counter while both are set.
C15_Original == C15_NoSharedTarget /\ C15_NoSharedCounter

\* ----------------------------------------------------------------- C20
\* the step is a play of the assembler in which it bought a plate
BuysPlate ==
    /\ pc = "assembler"
    /\ sim.holding[my_bots[2]] = NoItem
    /\ sim'.holding[my_bots[2]].type = "Plate"
    /\ sim'.money < sim.money

\* the counters that hold a plate, and the bots that hold one
PlatesOnCounters == {k \in DOMAIN sim.item : sim.item[k].type = "Plate"}

PlateHolders == {b \in BotIds : sim.holding[b].type = "Plate"}

\* ----------------------------------------------------------------- C19
\* the step is a play of the provider in which it called place on the cooker
PlacesOnCooker ==
    /\ pc = "provider"
    /\ \E i \in 1 .. Len(log'.acts) :
          log'.acts[i].kind = "place" /\ log'.acts[i].loc = bot.cooker_loc

\* C19: buying and placing a pan precede any placement of an ingredient on
\* the cooker: the provider calls place with a food on the cooker (state 7)
\* only when the cooker holds a Pan, and what it places on the cooker in
\* state 2 is always a Pan.
C19_Original ==
    [][PlacesOnCooker =>
          /\ bot.provider_state \in {2, 7}
          /\ bot.provider_state = 2 => sim.holding[my_bots[1]].type = "Pan"
          /\ bot.provider_state = 7 =>
                /\ sim.holding[my_bots[1]].type = "Food"
                /\ sim.item[bot.cooker_loc].type = "Pan"]_vars

\* C20: the assembler of pp_bot buys a plate only in a turn in which no bot
\* holds a plate and no counter holds a plate of the current order; in a game
\* with a single order every plate of the kitchen was bought for that order.
C20_Original ==
    [][player = "pp" /\ BuysPlate /\ Len(sim.orders) = 1
          => PlatesOnCounters = {} /\ PlateHolders = {}]_vars

\* ----------------------------------------------------------------- C16
\* C16: liveness of the pp_bot team: with two bots, a connected map with a
\* shop, a cooker, a submit tile, a trash tile and two counters, enough
\* money, a simulator that carries out every call whose precondition holds
\* and cooks in a fixed number of turns, and one order that does not expire,
\* the assembler eventually hands the order in.
C16_Original == <>(sim.completed # {})

\* ----------------------------------------------------------------- C17
\* the pan on a cooker holds burnt food
BurntInPan ==
    \E k \in DOMAIN sim.item :
        /\ tiles[k] = "COOKER" /\ sim.item[k].type = "Pan"
        /\ sim.item[k].pan_food # NoFood /\ sim.item[k].pan_food.cooked_stage = 2

\* the locked order is active and asks for a cooked food
LockedNeedsCooked ==
    \E i \in 1 .. Len(sim.orders) :
        /\ sim.orders[i].order_id = bot.current_order_id
        /\ is_active(sim, sim.orders[i])
        /\ \E j \in 1 .. Len(sim.orders[i].required) : FoodType[sim.orders[i].required[j]].can_cook

\* a bot has called take_from_pan on a cooker in this turn
TakesFromPan == \E a \in Acts : a.kind = "take_from_pan" /\ tiles[a.loc] = "COOKER"

\* C17: in pp_bot, whenever the pan on the cooker holds burnt food (stage 2)
\* while an order that needs cooked food is locked and still active, some
\* bot eventually calls take_from_pan on that cooker, whatever states the
\* provider and the assembler are in when the food burns.
C17_Original == (BurntInPan /\ LockedNeedsCooked) ~> TakesFromPan

\* ----------------------------------------------------------------- C11
\* C11: in claude_bot2, where the bots are run one after another in
\* play_turn and the pathfinder blocks the positions cached for the turn, no
\* bot is issued a move into the cell an earlier-processed bot moved into
\* in the same turn.
C11_Original ==
    \A i, j \in 1 .. Len(log.moves) :
        (i < j /\ log.moves[i].bot # log.moves[j].bot /\ log.moves[i].ok)
            => log.moves[j].to # log.moves[i].to

\* ----------------------------------------------------------------- C21
\* the shop, submit and cooker tiles of the map
StationCells == {k \in Cells : tiles[k] \in {"SHOP", "SUBMIT", "COOKER"}}

\* C21: the idle target get_idle_tile returns (and remembers in
\* cached_idle_loc) is a walkable tile that is not Chebyshev-adjacent to any
\* shop, submit or cooker tile of the map, also on maps with several shops.
C21_Original ==
    bot.cached_idle_loc # None =>
        /\ is_tile_walkable(bot.cached_idle_loc)
        /\ \A k \in StationCells : Cheb(bot.cached_idle_loc, k) > 1

\* ----------------------------------------------------------------- C24
\* C24: for an order requiring MEAT and ONIONS, with nothing yet available
\* (buy costs MEAT 10, ONIONS 5, plate 2), the cost the order scorer charges
\* against the reward is 17: the ingredients' buy costs plus the plate cost.
C24_Original ==
    (pc = "scored" /\ sim.order.required = <<"MEAT", "ONIONS">>) => log.cost = 17

\* ----------------------------------------------------------------- C27
\* the calls of controller.buy a bot's part of play_turn adds to the turn's log
NewBuys == {i \in Len(log.acts) + 1 .. Len(log'.acts) : log'.acts[i].kind = "buy"}

\* C27: in pp_bot, a bot that is run while should_continue_order is false (no
\* order is locked, or the turn is past the locked order's expires_turn)
\* issues no buy: neither the provider, pipeline work included, nor the
\* assembler.
C27_NoBuy ==
    [][(player = "pp" /\ pc \in {"provider", "assembler"}
        /\ ~pp_should_continue_order(Ctx, sim.turn)) => NewBuys = {}]_vars

\* a turn of pp_bot that began with an order locked, which the order
\* selection dropped: the bots were run without an order, with money for a
\* plate, and walked without buying
C27_Witness ==
    /\ player = "pp" /\ pc = "end"
    /\ log.sel.locked # NoOrderId
    /\ bot.current_order = NoOrderId
    /\ sim.money >= ShopCosts.PLATE.buy_cost
    /\ sim.turn > 2
    /\ Len(log.moves) >= 1
    /\ log.acts = << >>

\* ----------------------------------------------------------------- C28
\* the assembling of the locked order has begun
Assembling == bot.assembler_state >= 2 \/ bot.items_on_plate > 0

\* the best active order is another one than the locked order and scores
\* more than 1.5 times the locked order's score
BetterOffer ==
    LET K == OrderRec(sim, bot.current_order_id)
        sj == pp_order_score(ScoringCtx, BestOrder, sim.turn)
        sk == pp_order_score(ScoringCtx, K, sim.turn)
    IN /\ BestOrder.order_id # K.order_id
       /\ 2 * sj.num * sk.den > 3 * sk.num * sj.den

\* C28: in pp_bot, while the locked order is listed active and has not
\* expired, the order decision of play_turn leaves current_order_id as it is
\* in every turn that begins with assembler_state >= 2 or items_on_plate > 0,
\* whatever the other active orders score.
C28_KeepsWhileAssembling ==
    [][(player = "pp" /\ pc = "select" /\ LockedActive /\ Assembling)
          => bot'.current_order_id = bot.current_order_id]_vars

\* the order decision of pp_bot kept the locked order, the assembling begun,
\* though another active order scored more than 1.5 times as much
C28_Witness ==
    /\ player = "pp" /\ pc = "provider"
    /\ log.sel.locked # NoOrderId /\ log.sel.locked_active
    /\ bot.current_order_id = log.sel.locked
    /\ Assembling
    /\ BetterOffer

\* ----------------------------------------------------------------- C29
\* C29: provider watchdog. In a turn by which provider_state has equalled its
\* value at the start of the turn before for more than W turns in a row
\* (W = 15 in balanced_bot, 20 in pp_bot) the provider is forced to the idle
\* state 100 and the timer is reset to 0; so no provider state other than
\* 100 is run in more than W + 1 turns in a row.
C29_Watchdog ==
    /\ log.run.same > WatchLimit =>
           log.run.state = 100 /\ bot.provider_state_timer = 0
    /\ log.run.state # 100 => log.run.turns <= WatchLimit + 1

\* the watchdog has just forced the provider out of a state other than 100,
\* which had been run in W + 1 turns in a row
C29_Witness ==
    /\ pc = "assembler"
    /\ log.run.same > WatchLimit
    /\ log.run.entry # 100
    /\ log.run.state = 100
    /\ bot.last_provider_state = log.run.entry

\* ----------------------------------------------------------------- C30
\* the provider of balanced_bot is to buy with empty hands and the team
\* cannot pay: a buy state, a shop and the item known, money below its cost
CannotPay ==
    /\ player = "bb" /\ pc = "provider"
    /\ bot.provider_state \in {1, 3, 30}
    /\ sim.holding[my_bots[1]] = NoItem
    /\ bot.shop_loc # None
    /\ sim.money < ProviderBuyCost

\* C30: in balanced_bot, when the provider is in a buy state (1, 3 or 30)
\* with empty hands and the team's money is below the cost of the item to
\* buy, it issues neither a move nor a buy in that turn, sets
\* current_order_id to None and provider_state to 100, and records its
\* current position as its committed position.
C30_AbortsWhenBroke ==
    [][CannotPay =>
          /\ log'.moves = log.moves
          /\ log'.acts = log.acts
          /\ bot'.current_order_id = NoOrderId
          /\ bot'.provider_state = 100
          /\ bot'.future_positions[my_bots[1]] = sim.bot_pos[my_bots[1]]]_vars

\* the provider of balanced_bot began the turn in a buy state with an active
\* order locked and empty hands, could not pay, and gave the order up
C30_Witness ==
    /\ player = "bb" /\ pc = "assembler"
    /\ log.sel.locked # NoOrderId /\ log.sel.locked_active
    /\ bot.last_provider_state \in {1, 3, 30}
    /\ bot.provider_state_timer <= 15
    /\ sim.holding[my_bots[1]] = NoItem
    /\ sim.money < ShopCosts.PAN.buy_cost
    /\ bot.current_order_id = NoOrderId
    /\ bot.provider_state = 100
    /\ log.moves = << >> /\ log.acts = << >>

\* ----------------------------------------------------------------- C22
\* the rearrangements of a list of n entries
Perms(n) == {f \in [1 .. n -> 1 .. n] : \A i, j \in 1 .. n : f[i] = f[j] => i = j}

Permuted(s, f) == [i \in 1 .. Len(s) |-> s[f[i]]]

\* the assembler took the plate for complete: it goes on to submit (state 2)
\* or to pick the plate up for submitting (state 13)
JudgedComplete == pc = "judged" /\ bot.state \in {2, 13}

\* C22: in real_bot_copy, whether the assembler judges a plate complete for
\* the current order (no ingredient missing) is the same for every
\* permutation of the order's required list and every permutation of the
\* plate's food list.
C22_OrderIndependent ==
    pc = "judged" =>
        \A f \in Perms(Len(sim.required)), g \in Perms(Len(sim.food)) :
            /\ (rc_assemble(Permuted(sim.required, f), Permuted(sim.food, g)) = 2)
                   <=> (log.missing = NoIng)
            /\ (rc_fetch(Permuted(sim.required, f), Permuted(sim.food, g)) = 13)
                   <=> (log.missing = NoIng)

\* a plate judged complete whose foods lie in another order than the order
\* asks for them, and one judged incomplete
C22_Witness ==
    /\ JudgedComplete
    /\ Len(sim.required) = 2 /\ Len(sim.food) = 2
    /\ upper(sim.food[1]) = sim.required[2]
    /\ upper(sim.food[2]) = sim.required[1]
    /\ sim.required[1] # sim.required[2]

\* ----------------------------------------------------------------- C23
RECURSIVE Times(_, _)
\* how often name occurs in the list s
Times(s, name) ==
    IF s = << >> THEN 0 ELSE (IF Head(s) = name THEN 1 ELSE 0) + Times(Tail(s), name)

\* C23: in real_bot_copy the assembler treats a plate as complete, and goes
\* on to submit, only when the plate's contents equal the order's required
\* multiset: every required ingredient is on the plate as many times as it
\* is required.
C23_Original ==
    JudgedComplete =>
        \A name \in OrderFoodNames :
            Times(rc_on_plate(sim.food), name) = Times(sim.required, name)

FailedPlaces ==
    {i \in Len(log.acts) + 1 .. Len(log'.acts) :
        log'.acts[i].kind = "place" /\ ~log'.acts[i].ok}

\* the assembler state whose branch play_assembler_bot runs in this turn;
\* -1 when the turn is spent on getting rid of the item of an abandoned order
assembler_runs(c0, b, current_turn) ==
    LET e == pp_assembler_entry(c0, current_turn)
    IN IF e.cleanup /\ c0.sim.holding[b] # NoItem THEN -1 ELSE e.c.bot.assembler_state

\* the provider puts its food down in state 4 or 31
ProviderPlaces ==
    /\ player = "pp" /\ pc = "provider"
    /\ provider_runs(Ctx, sim.turn) \in {4, 31}
    /\ sim.holding[my_bots[1]] # NoItem

\* the provider chops ahead and puts the food down in pipeline state 2
PipelinePlaces ==
    /\ player = "pp" /\ pc = "provider"
    /\ provider_runs(Ctx, sim.turn) \in {8, 9}
    /\ bot.pipeline_state = 2
    /\ sim.holding[my_bots[1]] # NoItem

\* the assembler puts its plate down in state 1 or 6
AssemblerPlaces ==
    /\ player = "pp" /\ pc = "assembler"
    /\ assembler_runs(Ctx, my_bots[2], sim.turn) \in {1, 6}
    /\ sim.holding[my_bots[2]].type = "Plate"

\* C31: in pp_bot, when place on the locked counter fails in provider state 4
\* or 31, in pipeline state 2 or in assembler state 1 or 6, the state of the
\* state machine stays what it was and the locked counter is forgotten; a
\* counter locked in these states is one that is empty when it is chosen.
C31_PlaceFailed ==
    [][/\ (ProviderPlaces /\ FailedPlaces # {})
            => /\ bot'.provider_state = provider_runs(Ctx, sim.turn)
               /\ bot'.active_chop_loc = None
       /\ (PipelinePlaces /\ FailedPlaces # {})
            => /\ bot'.pipeline_state = 2
               /\ bot'.pipeline_chop_loc = None
       /\ (AssemblerPlaces /\ FailedPlaces # {})
            => /\ bot'.assembler_state = assembler_runs(Ctx, my_bots[2], sim.turn)
               /\ bot'.active_assemble_loc = None
       /\ (ProviderPlaces /\ bot.active_chop_loc = None /\ bot'.active_chop_loc # None)
            => sim.item[bot'.active_chop_loc] = NoItem
       /\ (AssemblerPlaces /\ bot.active_assemble_loc = None
                           /\ bot'.active_assemble_loc # None)
            => sim.item[bot'.active_assemble_loc] = NoItem]_vars

\* the provider, at the counter it had locked in state 4 or 31, has just been
\* refused the place, and has forgotten the counter
C31_Witness ==
    /\ player = "pp" /\ pc = "assembler"
    /\ bot.provider_state \in {4, 31}
    /\ bot.active_chop_loc = None
    /\ \E i \in 1 .. Len(log.acts) :
          /\ log.acts[i].bot = my_bots[1]
          /\ log.acts[i].kind = "place" /\ ~log.acts[i].ok
          /\ tiles[log.acts[i].loc] = "COUNTER"

\* ---------------------------------------------------------------- C32
\* the calls that belong to cooking, helping and assembling an order
WorkKinds == {"buy", "chop", "submit", "take_from_pan", "add_food_to_plate", "pickup"}

\* C32 (as stated): in claude_bot2, in a turn that begins with the locked
\* order expired, play_turn issues no buy, chop, submit or placement on a
\* cooker of food, and if no bot holds an item when the turn begins the lock
\* is cleared in that turn.
C32_Original ==
    (player = "cb" /\ pc = "end" /\ log.sel.expired) =>
        /\ \A i \in 1 .. Len(log.acts) :
              /\ log.acts[i].kind \notin WorkKinds
              /\ log.acts[i].kind = "place" /\ tiles[log.acts[i].loc] = "COOKER"
                    => log.sel.holding # {}
        /\ log.sel.holding = {} => bot.current_order = NoOrderId

\* ---------------------------------------------------------------- C33
\* C33 (as stated): in claude_bot2, after assign_cooking_tasks every
\* ingredient of the locked order that needs cooking is the assigned
\* ingredient of some bot in bot_assignments.
C33_Original ==
    (player = "cb" /\ pc = "assigned") =>
        \A i \in 1 .. Len(bot.cooked_ingredients) :
            \E b \in BotIds : bot.bot_assignments[b].ingredient = bot.cooked_ingredients[i]

\* ---------------------------------------------------------------- C34
\* the assembler is in state 4 with empty hands, and the chop-only ingredient
\* it needs lies chopped on the counter where a helper recorded it
PreparedWaits ==
    /\ player = "cb" /\ pc = "select"
    /\ bot.assembler_bot_id # NoBot
    /\ bot.assembler_state = 4
    /\ bot.chop_only_ingredients # << >>
    /\ sim.holding[bot.assembler_bot_id] = NoItem
    /\ \E p \in log.prep :
          /\ p.ingredient = Head(bot.chop_only_ingredients)
          /\ sim.item[p.loc] = [Food(p.ingredient) EXCEPT !.chopped = TRUE]

\* C34 (as stated): in claude_bot2 assembler state 4, once a helper has
\* recorded a chopped copy of the needed chop-only ingredient, the assembler
\* does not buy that ingredient again, however many turns its walk to the
\* counter takes.
C34_Original ==
    [][PreparedWaits =>
          \A i \in 1 .. Len(log'.acts) :
              ~(log'.acts[i].bot = bot.assembler_bot_id /\ log'.acts[i].kind = "buy")]_vars

\* ---------------------------------------------------------------- C35
\* the game as play_turn hands it to the bot b: the bots before b have played
called_with(b) ==
    LET p == cb_turn_prologue(cb_mark_expired(Ctx))
        i == CHOOSE k \in 1 .. Len(my_bots) : my_bots[k] = b
    IN cb_run_upto(p.c, 1, i - 1, sim.turn)

\* the bots that get a helper assignment in this turn
NewHelpers ==
    {b \in BotIds : bot.helper_assignments[b] = NoHelper /\ bot'.helper_assignments[b] # NoHelper}

\* no two helper assignments name the same counter
DistinctHelperCounters ==
    \A a, b \in BotIds :
        (a # b /\ bot.helper_assignments[a] # NoHelper /\ bot.helper_assignments[b] # NoHelper)
            => bot.helper_assignments[a].counter # bot.helper_assignments[b].counter

\* C35: in claude_bot2 no two entries of helper_assignments name the same
\* counter, and the counter a helper is given is empty, and no other
\* helper's, at the moment it is given.
C35_HelperCounters ==
    /\ [](player = "cb" => DistinctHelperCounters)
    /\ [][(player = "cb" /\ pc = "select") =>
            \A b \in NewHelpers :
                LET at == called_with(b)
                    given == bot'.helper_assignments[b].counter
                IN /\ given # None
                   /\ at.sim.item[given] = NoItem
                   /\ \A o \in BotIds : at.bot.helper_assignments[o].counter # given]_vars

\* a helper has just been given a counter further down the list, the first
\* counter of the map being taken
C35_Witness ==
    /\ player = "cb" /\ pc = "end"
    /\ \E b \in BotIds :
          /\ bot.helper_assignments[b] # NoHelper
          /\ bot.helper_assignments[b].state = 0
          /\ bot.helper_assignments[b].counter # locations("COUNTER")[1]
          /\ sim.item[locations("COUNTER")[1]] # NoItem
          /\ sim.item[bot.helper_assignments[b].counter] = NoItem

\* ---------------------------------------------------------------------------
\* C36: analyze_order called with an order whose id is current_order_id
\* changes nothing: the order locked, the ingredient queues, the cooked
\* counters and the locked counter locations stay as they are (pp_bot and
\* balanced_bot in their games, copy.py on its fields).
SameOrderAnalyzed ==
    \/ pc = "end" /\ pc' = "analyzed"
    \/ /\ pc = "call" /\ pc' = "called"
       /\ sim.orders[sim.arg].order_id = bot.current_order_id

C36_AnalyzeSameOrder == [][SameOrderAnalyzed => bot' = bot]_vars

\* pp_bot called it on the order it had locked counters and cooked for
C36_Witness ==
    /\ pc = "analyzed" /\ player = "pp"
    /\ bot.active_chop_loc # None \/ bot.active_assemble_loc # None
    /\ Len(bot.cooked_queue) < bot.cooked_total

\* ---------------------------------------------------------------------------
\* C37: between the turns of pp_bot the cooking counters agree: cooked_count
\* plus the length of cooked_queue is cooked_total, and cooked_added_to_plate
\* lies between 0 and cooked_total.
C37_CookingCounters ==
    (player = "pp" /\ pc \in {"select", "end"}) =>
        /\ bot.cooked_count + Len(bot.cooked_queue) = bot.cooked_total
        /\ 0 <= bot.cooked_added_to_plate
        /\ bot.cooked_added_to_plate <= bot.cooked_total

\* half way through an order of two cooked ingredients: one is cooked and on
\* the plate, the other still in cooked_queue
C37_Witness ==
    /\ player = "pp" /\ pc = "select"
    /\ bot.cooked_total = 2 /\ bot.cooked_count = 1 /\ Len(bot.cooked_queue) = 1
    /\ bot.cooked_added_to_plate = 1

\* ---------------------------------------------------------------------------
\* the assembler of pp_bot calls submit in this turn
SubmitCalled ==
    /\ player = "pp" /\ pc = "assembler"
    /\ \E i \in 1 .. Len(log'.acts) :
          log'.acts[i].kind = "submit" /\ log'.acts[i].bot = my_bots[2]

\* the fields of the player as the assembler's state machine finds them
at_submit == pp_assembler_entry(Ctx, sim.turn).c.bot

\* C38: the assembler of pp_bot calls submit only when simple_queue and
\* chopped_queue are empty and cooked_added_to_plate = cooked_total.
C38_Original ==
    [][SubmitCalled =>
          /\ at_submit.simple_queue = << >>
          /\ at_submit.chopped_queue = << >>
          /\ at_submit.cooked_added_to_plate = at_submit.cooked_total]_vars
====
